---- MODULE Spec2Model ----
(***************************************************************************)
(* MPEG-4 ALS encoder (libavcodec/alsenc.c), the shared helpers            *)
(* (libavcodec/als.c) and the raw ALS muxer (libavformat/alsenc.c).        *)
(*                                                                         *)
(* Spec and SpecPart: the encoder context across calls of                  *)
(* als_encode_frame, and the block partitioning of one frame.  There the   *)
(* result of the per-block search, the bit count of a block, is an input   *)
(* of the frame: the tables bs_sizes and js_sizes are drawn from bounded   *)
(* sets.                                                                   *)
(*                                                                         *)
(* SpecBlock and SpecLong: find_block_params and write_block on one block. *)
(* The integer part of the search is computed; the floating-point analysis *)
(* (autocorrelation, reflection coefficients, their quantisation) is an    *)
(* input.  Long-term prediction and the partition of a block into          *)
(* sub-blocks are not modelled.                                            *)
(*                                                                         *)
(* SpecMux: the muxer over the life of one file.                           *)
(*                                                                         *)
(* Specifications of single functions, each applied once to inputs drawn   *)
(* from bounded sets (fn_call holds the inputs, fn_ret the result):        *)
(* SpecParse (ff_als_parse_bs_info and set_blocks), SpecChoice             *)
(* (block_partitioning of one channel pair), SpecSoftFloat                 *)
(* (av_int2sf_ieee754), SpecEntropy (the searches of the Rice and BGMC     *)
(* parameters with sub-blocks), SpecLtp (check_ltp), SpecReset             *)
(* (reset_js_sizes on block_buffer), SpecGolomb (set_sr_golomb_als and     *)
(* rice_count at 32 bits) and SpecParamBits (block_ec_param_count next to  *)
(* the parameter fields of write_block).                                   *)
(*                                                                         *)
(* Memory allocation is assumed to succeed.  The CRC accumulator (av_crc   *)
(* of libavutil) is not modelled.                                          *)
(***************************************************************************)
EXTENDS Integers, Sequences, FiniteSets, TLC

(***************************************************************************)
(* Bounds of the model.                                                    *)
(***************************************************************************)
MaxDepth == 2
MaxFrameLength == 4
MaxCost == 2
MaxChannels == 2
MaxGop == 2
MaxFrames == 3
MaxOrder == 1
MaxSample == 1
MaxBytes == 1
MaxLane == 4

(***************************************************************************)
(* Program constants.                                                      *)
(***************************************************************************)
ALS_MAX_BLOCKS == 32
ALS_MAX_LTP_LAG == 2048
BS_ALGORITHM_FULL_SEARCH == 1
BS_ALGORITHM_BOTTOM_UP == 0

Pow2(k) == 2 ^ k

FFMAX(a, b) == IF a > b THEN a ELSE b

FFMIN(a, b) == IF a < b THEN a ELSE b

av_clip(a, amin, amax) == IF a < amin THEN amin ELSE IF a > amax THEN amax ELSE a

(* A C array holds finished values.  Table(f) is the function f written    *)
(* out as such a table, and Bind(v, F) is F applied to the finished value  *)
(* of v: the statements of a C function run one after the other, each on   *)
(* the result the one before it has left in memory.                        *)
Table(f) == f @@ << >>

Bind(v, F(_)) == CHOOSE r \in { F(x) : x \in {v} } : TRUE

(***************************************************************************)
(* bs_info is a uint32_t; node n of the tree is bit 30 - n.  Bit 31 is     *)
(* never set in ctx->bs_info, so the word is kept as a number < 2^31.      *)
(* The test used by every tree walk: n < 31 && ((bs_info << n) &           *)
(* 0x40000000).                                                            *)
(***************************************************************************)
NodeBit(bs_info, n) == n < 31 /\ (bs_info \div Pow2(30 - n)) % 2 = 1

(* GET_BS_BIT(ptr_bs_info, pos): the word masked with 1 << (30 - pos).  For *)
(* pos > 30 the shift count is negative; such a pos is only passed for a   *)
(* split node n >= 15, i.e. at depth 5, beyond the depths explored here.   *)
GET_BS_BIT(bs_info, pos) == pos <= 30 /\ (bs_info \div Pow2(30 - pos)) % 2 = 1

ClearBit(bs_info, n) == IF NodeBit(bs_info, n) THEN bs_info - Pow2(30 - n) ELSE bs_info

RECURSIVE bs_get_size(_, _, _)
bs_get_size(bs_info, n, bs_sizes) ==
    IF NodeBit(bs_info, n)
    THEN bs_get_size(bs_info, 2 * n + 1, bs_sizes) + bs_get_size(bs_info, 2 * n + 2, bs_sizes)
    ELSE bs_sizes[n]

(* Variant: only the bit of node n is cleared, the bits below it stay.     *)
bs_set_zero_one_bit(bs_info, n) == ClearBit(bs_info, n)

RECURSIVE bs_set_zero(_, _)
bs_set_zero(bs_info, n) ==
    IF n < 31
    THEN Bind(bs_set_zero(ClearBit(bs_info, n), 2 * n + 1),
              LAMBDA x : bs_set_zero(x, 2 * n + 2))
    ELSE bs_info

(* Variant: the right child is visited before the left one.               *)
RECURSIVE ff_als_parse_bs_info_right_first(_, _, _)
ff_als_parse_bs_info_right_first(bs_info, n, div) ==
    IF NodeBit(bs_info, n)
    THEN ff_als_parse_bs_info_right_first(bs_info, 2 * n + 2, div + 1)
         \o ff_als_parse_bs_info_right_first(bs_info, 2 * n + 1, div + 1)
    ELSE << div >>

(* ff_als_parse_bs_info: the div value of every leaf, in the order the     *)
(* recursion appends them to div_blocks.                                   *)
RECURSIVE ff_als_parse_bs_info(_, _, _)
ff_als_parse_bs_info(bs_info, n, div) ==
    IF NodeBit(bs_info, n)
    THEN ff_als_parse_bs_info(bs_info, 2 * n + 1, div + 1)
         \o ff_als_parse_bs_info(bs_info, 2 * n + 2, div + 1)
    ELSE << div >>

(* The node numbers bs_set_js visits as leaves, in visiting order.         *)
RECURSIVE JsLeaves(_, _)
JsLeaves(bs_info, n) ==
    IF NodeBit(bs_info, n)
    THEN JsLeaves(bs_info, 2 * n + 1) \o JsLeaves(bs_info, 2 * n + 2)
    ELSE << n >>

(***************************************************************************)
(* The merge test of both strategies: the node is merged when its two      *)
(* children together cost more than the node.                              *)
(***************************************************************************)
(* Variant: the node is merged at equal cost as well.                      *)
MergeTest_or_equal(sum_a, sum_b, sum_n) == sum_a + sum_b >= sum_n

MergeTest(sum_a, sum_b, sum_n) == sum_a + sum_b > sum_n

(***************************************************************************)
(* bs_merge_bottomup on the word of channel c1: a node is tested only when *)
(* both its children are leaves.  The result carries the word, whether a   *)
(* merge was made (each merge also stores the word to bs_info[c2] when     *)
(* c1 != c2) and the words produced by the merges.                         *)
(***************************************************************************)
RECURSIVE bs_merge_bottomup(_, _, _, _, _)
bs_merge_bottomup(bs_info, n, sizes_c1, sizes_c2, joint) ==
    IF ~ NodeBit(bs_info, n)
    THEN [bs |-> bs_info, merged |-> FALSE, log |-> {}]
    ELSE LET a  == 2 * n + 1
             b  == a + 1
             both == GET_BS_BIT(bs_info, a) /\ GET_BS_BIT(bs_info, b)
             ra == IF both
                   THEN bs_merge_bottomup(bs_info, a, sizes_c1, sizes_c2, joint)
                   ELSE [bs |-> bs_info, merged |-> FALSE, log |-> {}]
             rb == IF both
                   THEN bs_merge_bottomup(ra.bs, b, sizes_c1, sizes_c2, joint)
                   ELSE [bs |-> ra.bs, merged |-> FALSE, log |-> {}]
             cur   == rb.bs
             sum_a == sizes_c1[a] + (IF joint THEN sizes_c2[a] ELSE 0)
             sum_b == sizes_c1[b] + (IF joint THEN sizes_c2[b] ELSE 0)
             sum_n == sizes_c1[n] + (IF joint THEN sizes_c2[n] ELSE 0)
         IN  IF ~ GET_BS_BIT(cur, a) /\ ~ GET_BS_BIT(cur, b) /\ MergeTest(sum_a, sum_b, sum_n)
             THEN [bs |-> bs_set_zero(cur, n), merged |-> TRUE,
                   log |-> ra.log \cup rb.log \cup {bs_set_zero(cur, n)}]
             ELSE [bs |-> cur, merged |-> ra.merged \/ rb.merged,
                   log |-> ra.log \cup rb.log]

(***************************************************************************)
(* bs_merge_fullsearch on the word of channel c1: both subtrees are        *)
(* merged first, then the node is tested against what is left of them.     *)
(* The result has the same form as that of bs_merge_bottomup.              *)
(***************************************************************************)
(* Variant: the node tests of the bottom-up strategy in place of the full  *)
(* search.                                                                 *)
bs_merge_fullsearch_as_bottomup(bs_info, n, sizes_c1, sizes_c2, joint) ==
    bs_merge_bottomup(bs_info, n, sizes_c1, sizes_c2, joint)

RECURSIVE bs_merge_fullsearch(_, _, _, _, _)
bs_merge_fullsearch(bs_info, n, sizes_c1, sizes_c2, joint) ==
    IF ~ NodeBit(bs_info, n)
    THEN [bs |-> bs_info, merged |-> FALSE, log |-> {}]
    ELSE LET a  == 2 * n + 1
             b  == a + 1
             ra == IF GET_BS_BIT(bs_info, a)
                   THEN bs_merge_fullsearch(bs_info, a, sizes_c1, sizes_c2, joint)
                   ELSE [bs |-> bs_info, merged |-> FALSE, log |-> {}]
             rb == IF GET_BS_BIT(ra.bs, b)
                   THEN bs_merge_fullsearch(ra.bs, b, sizes_c1, sizes_c2, joint)
                   ELSE [bs |-> ra.bs, merged |-> FALSE, log |-> {}]
             cur   == rb.bs
             sum_a == bs_get_size(cur, a, sizes_c1)
                      + (IF joint THEN bs_get_size(cur, a, sizes_c2) ELSE 0)
             sum_b == bs_get_size(cur, b, sizes_c1)
                      + (IF joint THEN bs_get_size(cur, b, sizes_c2) ELSE 0)
             sum_n == sizes_c1[n] + (IF joint THEN sizes_c2[n] ELSE 0)
         IN  IF MergeTest(sum_a, sum_b, sum_n)
             THEN [bs |-> bs_set_zero(cur, n), merged |-> TRUE,
                   log |-> ra.log \cup rb.log \cup {bs_set_zero(cur, n)}]
             ELSE [bs |-> cur, merged |-> ra.merged \/ rb.merged,
                   log |-> ra.log \cup rb.log]

(***************************************************************************)
(* set_blocks for one channel's block array: div_block and length of the   *)
(* leaves of bs_info, shortened to frame_size in a short frame.  The       *)
(* sample pointers of a block are not modelled.                            *)
(***************************************************************************)
RECURSIVE SumLengths(_, _)
SumLengths(blk, b) == IF b = 0 THEN 0 ELSE SumLengths(blk, b - 1) + blk[b - 1].length

(* Variant: the blocks are laid out as bs_info signals them, without the   *)
(* adaptation to the samples of a short frame.                             *)
set_blocks_as_signalled(blk, bs_info, frame_length, frame_size) ==
    LET div_blocks == ff_als_parse_bs_info(bs_info, 0, 0)
        num    == Len(div_blocks)
    IN  [blocks |-> Table([b \in DOMAIN blk |->
                     IF b < num
                     THEN [blk[b] EXCEPT !.div_block = div_blocks[b + 1],
                                         !.length    = frame_length \div Pow2(div_blocks[b + 1])]
                     ELSE blk[b]]),
         num_blocks |-> num]

set_blocks(blk, bs_info, frame_length, frame_size) ==
    LET div_blocks == ff_als_parse_bs_info(bs_info, 0, 0)
        num    == Len(div_blocks)
        blk1   == Table([b \in DOMAIN blk |->
                     IF b < num
                     THEN [blk[b] EXCEPT !.div_block = div_blocks[b + 1],
                                         !.length    = frame_length \div Pow2(div_blocks[b + 1])]
                     ELSE blk[b]])
        remaining(b) == frame_size - SumLengths(blk1, b)
        hits   == {b \in 0 .. num - 1 : remaining(b) <= blk1[b].length}
        first  == CHOOSE b \in hits : \A x \in hits : b <= x
    IN  IF frame_size # frame_length /\ hits # {}
        THEN [blocks |-> [blk1 EXCEPT ![first] = [blk1[first] EXCEPT !.div_block = -1,
                                                               !.length = remaining(first)]],
              num_blocks |-> first + 1]
        ELSE [blocks |-> blk1, num_blocks |-> num]

(* Variant: channel c2 keeps the layout it had.                            *)
set_blocks_buddy_own_layout(blk_c2, blk_c1, num) == blk_c2

(* The second half of set_blocks (c1 != c2): channel c2 takes the layout   *)
(* of channel c1.                                                          *)
set_blocks_buddy(blk_c2, blk_c1, num) ==
    Table([b \in DOMAIN blk_c2 |->
        IF b < num
        THEN [blk_c2[b] EXCEPT !.div_block = blk_c1[b].div_block,
                               !.length    = blk_c1[b].length]
        ELSE blk_c2[b]])

(* Variant: the flag is set in both channels wherever js_info is not 0.    *)
bs_set_js_both(bs_info, js_info, blk, which) ==
    LET leaves == JsLeaves(bs_info, 0)
    IN  Table([b \in DOMAIN blk |->
            IF b < Len(leaves)
            THEN [blk[b] EXCEPT !.js_block = IF js_info[leaves[b + 1]] # 0 THEN 1 ELSE 0]
            ELSE blk[b]])

(* bs_set_js: the k-th leaf visited sets js_block of the k-th block of     *)
(* both channels from js_info of the leaf's node.                          *)
bs_set_js(bs_info, js_info, blk, which) ==
    LET leaves == JsLeaves(bs_info, 0)
    IN  Table([b \in DOMAIN blk |->
            IF b < Len(leaves)
            THEN [blk[b] EXCEPT !.js_block = IF js_info[leaves[b + 1]] = which THEN 1 ELSE 0]
            ELSE blk[b]])

(***************************************************************************)
(* The encoder context as used by the partitioning functions is passed as  *)
(* a record C with the fields bs_info, num_blocks, blocks, bs_sizes,       *)
(* js_sizes, js_infos, independent_bs (and bs_log, the set of words        *)
(* bs_info has held during the frame); e holds the values the functions    *)
(* read from sconf, avctx and the current stage.                           *)
(***************************************************************************)
StageBlocks(e, stage) == IF e.block_switching # 0 THEN Pow2(stage) ELSE 1

(* One pass of the loop of set_js_sizes / reset_js_sizes over the blocks   *)
(* of a stage: the size of the channel js_info points at is exchanged      *)
(* with the size of the difference signal.                                 *)
SwapJsStage(C, e, channel, stage) ==
    LET num_blocks == StageBlocks(e, stage)
        idx     == (num_blocks - 1) .. (2 * num_blocks - 2)
        pair    == channel \div 2
        js_info == C.js_infos[pair]
        block_size == C.bs_sizes[channel]
        buddy_size == C.bs_sizes[channel + 1]
        js_size    == C.js_sizes[pair]
    IN  [C EXCEPT
            !.bs_sizes = [C.bs_sizes EXCEPT
                ![channel] = Table([n \in DOMAIN block_size |->
                    IF n \in idx /\ js_info[n] = 1 THEN js_size[n] ELSE block_size[n]]),
                ![channel + 1] = Table([n \in DOMAIN buddy_size |->
                    IF n \in idx /\ js_info[n] = 2 THEN js_size[n] ELSE buddy_size[n]])],
            !.js_sizes = [C.js_sizes EXCEPT
                ![pair] = Table([n \in DOMAIN js_size |->
                    IF n \in idx /\ js_info[n] = 1 THEN block_size[n]
                    ELSE IF n \in idx /\ js_info[n] = 2 THEN buddy_size[n]
                    ELSE js_size[n]])]]

RECURSIVE set_js_sizes(_, _, _, _)
set_js_sizes(C, e, channel, stage) ==
    LET C1 == SwapJsStage(C, e, channel, stage)
    IN  IF e.block_switching # 0 /\ stage < e.block_switching
        THEN Bind(C1, LAMBDA x : set_js_sizes(x, e, channel, stage + 1))
        ELSE C1

(* reset_js_sizes also clears js_info and the js_block flag of the block   *)
(* descriptors at the table index num_blocks - 1 + b of both channels.     *)
RECURSIVE reset_js_sizes(_, _, _, _)
reset_js_sizes(C, e, channel, stage) ==
    LET num_blocks == StageBlocks(e, stage)
        idx  == (num_blocks - 1) .. (2 * num_blocks - 2)
        pair == channel \div 2
        C1   == SwapJsStage(C, e, channel, stage)
        clr(blk) == Table([b \in DOMAIN blk |->
                       IF b \in idx THEN [blk[b] EXCEPT !.js_block = 0] ELSE blk[b]])
        C2   == [C1 EXCEPT
                   !.js_infos = [C1.js_infos EXCEPT ![pair] =
                       Table([n \in DOMAIN C1.js_infos[pair] |->
                           IF n \in idx THEN 0 ELSE C1.js_infos[pair][n]])],
                   !.blocks = [C1.blocks EXCEPT ![channel] = clr(C1.blocks[channel]),
                                        ![channel + 1] = clr(C1.blocks[channel + 1])]]
    IN  IF e.block_switching # 0 /\ stage < e.block_switching
        THEN Bind(C2, LAMBDA x : reset_js_sizes(x, e, channel, stage + 1))
        ELSE C2

(***************************************************************************)
(* get_partition: merge, lay out the blocks, set the joint-stereo flags    *)
(* and return the bit count of the chosen partition.                       *)
(***************************************************************************)
get_partition(C, e, c1, c2) ==
    LET joint == c1 # c2
        m  == IF e.merge_algorithm = BS_ALGORITHM_BOTTOM_UP
              THEN bs_merge_bottomup(C.bs_info[c1], 0, C.bs_sizes[c1], C.bs_sizes[c2], joint)
              ELSE bs_merge_fullsearch(C.bs_info[c1], 0, C.bs_sizes[c1], C.bs_sizes[c2], joint)
        bs == m.bs
        sb == set_blocks(C.blocks[c1], bs, e.frame_length, e.frame_size)
        js_info == C.js_infos[c1 \div 2]
        blk_c1  == IF joint THEN bs_set_js(bs, js_info, sb.blocks, 1) ELSE sb.blocks
        blk_c2  == bs_set_js(bs, js_info,
                             set_blocks_buddy(C.blocks[c2], sb.blocks, sb.num_blocks), 2)
        bit_count == bs_get_size(bs, 0, C.bs_sizes[c1])
                     + (IF joint THEN bs_get_size(bs, 0, C.bs_sizes[c2]) ELSE 0)
    IN  [ctx |-> [C EXCEPT
                    !.bs_info = Table([c \in DOMAIN C.bs_info |->
                                   IF c = c1 THEN bs
                                   ELSE IF c = c2 /\ m.merged THEN bs
                                   ELSE C.bs_info[c]]),
                    !.num_blocks = Table([c \in DOMAIN C.num_blocks |->
                                   IF c = c1 \/ c = c2 THEN sb.num_blocks
                                   ELSE C.num_blocks[c]]),
                    !.blocks = Table([c \in DOMAIN C.blocks |->
                                   IF c = c1 THEN blk_c1
                                   ELSE IF c = c2 THEN blk_c2
                                   ELSE C.blocks[c]]),
                    !.bs_log = C.bs_log \cup m.log],
         bit_count |-> bit_count]

(* set_blocks(ctx, &ctx->bs_info[c], c, c) as called by                    *)
(* block_partitioning after it falls back to independent coding.           *)
SetBlocksOf(C, e, c) ==
    LET sb == set_blocks(C.blocks[c], C.bs_info[c], e.frame_length, e.frame_size)
    IN  [C EXCEPT !.blocks = [C.blocks EXCEPT ![c] = sb.blocks],
                  !.num_blocks = [C.num_blocks EXCEPT ![c] = sb.num_blocks]]

(* Variant: independent coding also at equal cost.                         *)
ChooseIndependent_or_equal(bits_ind, bs_info_len, bits_dep) == bits_ind + bs_info_len <= bits_dep

(* The decision of block_partitioning between independent and joint        *)
(* coding of a pair.                                                       *)
ChooseIndependent(bits_ind, bs_info_len, bits_dep) == bits_ind + bs_info_len < bits_dep

PartitionPair(C, e, c) ==
    IF e.joint_stereo
    THEN LET bs_info_len == Pow2(FFMAX(3, e.block_switching))
             bs_info     == C.bs_info[c]
             Dependent(g1, g2) ==
                 LET bits_ind   == g1.bit_count + g2.bit_count
                     bs_info_c1 == g2.ctx.bs_info[c]
                     bs_info_c2 == g2.ctx.bs_info[c + 1]
                     C3 == [g2.ctx EXCEPT !.bs_info = [g2.ctx.bs_info EXCEPT ![c] = bs_info]]
                     Decide(g3) ==
                         IF ChooseIndependent(bits_ind, bs_info_len, g3.bit_count)
                         THEN Bind(reset_js_sizes(g3.ctx, e, c, 0), LAMBDA C5 :
                              Bind([C5 EXCEPT
                                      !.independent_bs =
                                          [C5.independent_bs EXCEPT ![c] = 1, ![c + 1] = 1],
                                      !.bs_info =
                                          [C5.bs_info EXCEPT ![c] = bs_info_c1,
                                                             ![c + 1] = bs_info_c2]],
                                   LAMBDA C6 :
                              Bind(SetBlocksOf(C6, e, c), LAMBDA C7 :
                                   SetBlocksOf(C7, e, c + 1))))
                         ELSE g3.ctx
                 IN  Bind(set_js_sizes(C3, e, c, 0), LAMBDA C4 :
                     Bind(get_partition(C4, e, c, c + 1), Decide))
         IN  Bind(get_partition(C, e, c, c), LAMBDA g1 :
             Bind(get_partition(g1.ctx, e, c + 1, c + 1), LAMBDA g2 :
                  Dependent(g1, g2)))
    ELSE Bind(get_partition(C, e, c, c), LAMBDA g1 :
              get_partition(g1.ctx, e, c + 1, c + 1).ctx)

RECURSIVE PartitionFrom(_, _, _)
PartitionFrom(C, e, c) ==
    IF c < e.channels - 1
    THEN Bind(PartitionPair(C, e, c), LAMBDA x : PartitionFrom(x, e, c + 2))
    ELSE IF c < e.channels THEN get_partition(C, e, c, c).ctx
    ELSE C

(* mc_coding is 0 in every preset, so the MCC branch is never taken.       *)
block_partitioning(C, e) == PartitionFrom(C, e, 0)

(***************************************************************************)
(* gen_block_sizes: the sizes of all blocks of every stage.  The bit       *)
(* counts find_block_params returns for the raw and for the difference     *)
(* signal are the inputs in_bs and in_js.  bs_info_tmp of a stage has the  *)
(* bits 31 - b, 1 <= b < num_blocks, set.                                  *)
(***************************************************************************)
RECURSIVE BsInfoTmp(_)
BsInfoTmp(b) == IF b = 0 THEN 0 ELSE BsInfoTmp(b - 1) + Pow2(31 - b)

RECURSIVE gen_block_sizes(_, _, _, _, _, _)
gen_block_sizes(C, e, channel, stage, in_bs, in_js) ==
    LET num_blocks  == StageBlocks(e, stage)
        bs_info_tmp == IF stage # 0 THEN BsInfoTmp(num_blocks - 1) ELSE 0
        idx  == (num_blocks - 1) .. (2 * num_blocks - 2)
        pair == channel \div 2
        sb   == set_blocks(C.blocks[channel], bs_info_tmp, e.frame_length, e.frame_size)
        blk  == Table([b \in DOMAIN sb.blocks |->
                    IF b < num_blocks THEN [sb.blocks[b] EXCEPT !.js_block = 0]
                    ELSE sb.blocks[b]])
        C1   == [C EXCEPT
                   !.num_blocks = [C.num_blocks EXCEPT ![channel] = sb.num_blocks],
                   !.blocks     = [C.blocks EXCEPT ![channel] = blk],
                   !.bs_sizes   = [C.bs_sizes EXCEPT ![channel] =
                       Table([n \in DOMAIN C.bs_sizes[channel] |->
                           IF n \in idx THEN in_bs[channel][n]
                           ELSE C.bs_sizes[channel][n]])],
                   !.js_sizes   = IF e.joint_stereo /\ channel % 2 = 0
                                  THEN [C.js_sizes EXCEPT ![pair] =
                                      Table([n \in DOMAIN C.js_sizes[pair] |->
                                          IF n \in idx THEN in_js[pair][n]
                                          ELSE C.js_sizes[pair][n]])]
                                  ELSE C.js_sizes]
    IN  IF e.block_switching # 0 /\ stage < e.block_switching
        THEN Bind(C1, LAMBDA x : gen_block_sizes(x, e, channel, stage + 1, in_bs, in_js))
        ELSE [C1 EXCEPT !.bs_info = [C1.bs_info EXCEPT ![channel] = bs_info_tmp],
                        !.bs_log  = C1.bs_log \cup {bs_info_tmp}]

(* gen_js_infos: which channel of the pair, if any, is coded as the        *)
(* difference signal, for every block of every stage.                      *)
JsInfo(block_size, buddy_size, js_size) ==
    IF js_size < block_size \/ js_size < buddy_size
    THEN (IF block_size > buddy_size THEN 1 ELSE 2)
    ELSE 0

RECURSIVE gen_js_infos(_, _, _, _)
gen_js_infos(C, e, channel, stage) ==
    LET num_blocks == StageBlocks(e, stage)
        idx  == (num_blocks - 1) .. (2 * num_blocks - 2)
        pair == channel \div 2
        C1   == [C EXCEPT !.js_infos = [C.js_infos EXCEPT ![pair] =
                    Table([n \in DOMAIN C.js_infos[pair] |->
                        IF n \in idx
                        THEN JsInfo(C.bs_sizes[channel][n], C.bs_sizes[channel + 1][n],
                                    C.js_sizes[pair][n])
                        ELSE C.js_infos[pair][n]])]]
    IN  IF e.block_switching # 0 /\ stage < e.block_switching
        THEN Bind(C1, LAMBDA x : gen_js_infos(x, e, channel, stage + 1))
        ELSE C1

(***************************************************************************)
(* select_difference_coding_mode: independent_bs of every channel, the     *)
(* size tables of all channels, then js_infos of all pairs.  (The          *)
(* difference signal itself is input to find_block_params only.)           *)
(***************************************************************************)
RECURSIVE GenBlockSizesFrom(_, _, _, _, _)
GenBlockSizesFrom(C, e, c, in_bs, in_js) ==
    IF c < e.channels
    THEN Bind(gen_block_sizes(C, e, c, 0, in_bs, in_js),
              LAMBDA x : GenBlockSizesFrom(x, e, c + 1, in_bs, in_js))
    ELSE C

RECURSIVE GenJsInfosFrom(_, _, _)
GenJsInfosFrom(C, e, c) ==
    IF c < e.channels - 1
    THEN Bind(gen_js_infos(C, e, c, 0), LAMBDA x : GenJsInfosFrom(x, e, c + 2))
    ELSE C

select_difference_coding_mode(C, e, in_bs, in_js) ==
    LET paired(c) == e.joint_stereo /\ c < 2 * (e.channels \div 2)
        C1 == [C EXCEPT !.independent_bs =
                   Table([c \in DOMAIN C.independent_bs |-> IF paired(c) THEN 0 ELSE 1])]
    IN  Bind(GenBlockSizesFrom(C1, e, 0, in_bs, in_js), LAMBDA C2 :
             IF e.joint_stereo THEN GenJsInfosFrom(C2, e, 0) ELSE C2)

(***************************************************************************)
(* State: the encoder context (ALSEncContext, its ALSSpecificConfig and    *)
(* the fields of AVCodecContext it uses), the packet and results of the    *)
(* last call of als_encode_frame, and history variables of the calls.      *)
(***************************************************************************)
VARIABLES
    sconf,            \* frame_length, ra_distance, block_switching, joint_stereo, max_order, samples
    avctx,            \* channels, frame_size, extradata
    merge_algorithm,  \* stages[STAGE_BLOCK_SWITCHING].merge_algorithm
    ra_counter,
    flushed,
    next_pts,
    independent_bs,
    bs_info,
    num_blocks,
    blocks,
    bs_sizes,
    js_sizes,
    js_infos,
    raw_samples,      \* per channel, the lane positions -LaneBack .. frame_length - 1
    avpkt,            \* the packet of the last call: size, pts, duration, side_data
    got_packet_ptr,
    ret,              \* return value of the last call
    call,             \* history: what the last call was and what it was given
    n_frames,         \* history: number of encode_frame calls
    ok_samples,       \* history: nb_samples summed over the frames written successfully
    flush_packets,    \* history: number of packets reported by null-frame calls
    null_calls,       \* history: number of null-frame calls: 0, 1, or 2 for more
    bs_log,           \* history: the words bs_info held during the last frame
    cfg,              \* find_block_params: the fields of avctx, sconf and ctx it reads
    cur_stage,        \* find_block_params: the options of ctx->cur_stage
    cur_block,        \* find_block_params: the block being searched
    pb,               \* write_block: the fields put for the block, << bits, value >> each
    codecpar,         \* muxer: s->streams[0]->codecpar, its extradata
    priv_data,        \* muxer: AlsEncContext, header_size, extradata_size, side_data
    sink,             \* muxer: s->pb, the bytes of the file, the position, seekable
    mux,              \* muxer history: the calls made and what they wrote
    fn_call,          \* a single function of the encoder: its name and arguments
    fn_ret            \* what the function returned or wrote, << >> before the call

encvars == << sconf, avctx, merge_algorithm, ra_counter, flushed, next_pts,
              independent_bs, bs_info, num_blocks, blocks, bs_sizes, js_sizes,
              js_infos, raw_samples, avpkt, got_packet_ptr, ret, call,
              n_frames, ok_samples, flush_packets, null_calls, bs_log >>

blockvars == << cfg, cur_stage, cur_block, pb >>

muxvars == << codecpar, priv_data, sink, mux >>

fnvars == << fn_call, fn_ret >>

vars == << encvars, blockvars, muxvars, fnvars >>

(* The variables of the single functions while the model runs the encoder  *)
(* or the muxer.                                                           *)
NoFunction ==
    /\ fn_call = << >>
    /\ fn_ret = << >>

(* The variables of the muxer while the model runs the encoder.            *)
NoMuxer ==
    /\ codecpar = << >>
    /\ priv_data = << >>
    /\ sink = << >>
    /\ mux = << >>

(* The variables of the block search while the model runs whole frames.    *)
NoBlockSearch ==
    /\ cfg = << >>
    /\ cur_stage = << >>
    /\ cur_block = << >>
    /\ pb = << >>

AV_NOPTS_VALUE == -1
NoSideData == << >>
(* sconf->samples = 0xFFFFFFFF ("total number of samples unknown") as the  *)
(* 32-bit pattern read as a signed number.                                 *)
SAMPLES_UNKNOWN == -1

Channels == 0 .. avctx.channels - 1
Pairs == 0 .. ((avctx.channels + 1) \div 2) - 1
NumBsSizes(block_switching) == 2 * Pow2(block_switching) - 1

(***************************************************************************)
(* get_specific_config / frame_partitioning: frame length, RA distance     *)
(* and the block switching depth, which is lowered until the frame length  *)
(* is divisible by the smallest block count.                               *)
(***************************************************************************)
RECURSIVE LimitBlockSwitching(_, _)
LimitBlockSwitching(block_switching, frame_length) ==
    IF block_switching > 0 /\ frame_length % Pow2(block_switching) # 0
    THEN LimitBlockSwitching(block_switching - 1, frame_length)
    ELSE block_switching

frame_partitioning(frame_size, gop_size) ==
    [frame_length |-> av_clip(frame_size, 2, 65536),
     ra_distance  |-> av_clip(gop_size, 0, 7)]

(* write_specific_config: the fields of the ALSSpecificConfig in extradata *)
(* that differ between streams of the model.                               *)
write_specific_config(sc, channels) ==
    [samples |-> sc.samples, channels |-> channels,
     frame_length |-> sc.frame_length, ra_distance |-> sc.ra_distance]

(* als_encode_init: the samples a channel's lane holds before the frame    *)
(* window, rounded up to a multiple of 4.                                  *)
channel_offset(long_term_prediction, max_order) ==
    LET offset == IF long_term_prediction THEN ALS_MAX_LTP_LAG ELSE max_order
    IN  IF offset % 4 # 0 THEN (offset \div 4) * 4 + 4 ELSE offset

(* The positions before the window the model keeps track of: the last      *)
(* MaxLane of them.                                                        *)
LaneBack(long_term_prediction, max_order) ==
    FFMIN(channel_offset(long_term_prediction, max_order), MaxLane)

EmptyBlock == [ra_block |-> 0, length |-> 0, div_block |-> 0, js_block |-> 0]

(***************************************************************************)
(* als_encode_init.  preset is the ALSSpecificConfig preset and the merge  *)
(* algorithm of the block switching stage (joint_stereo, block_switching,  *)
(* merge_algorithm); the user gives channels, frame_size, gop_size and     *)
(* max_prediction_order.  Buffers that av_malloc leaves uninitialised      *)
(* (bs_info, num_blocks, independent_bs, the size tables) are written in   *)
(* every frame before they are read; they start as 0 here.                 *)
(***************************************************************************)
als_encode_init(preset, channels, frame_size, gop_size, max_prediction_order) ==
    LET fp == frame_partitioning(frame_size, gop_size)
        bs == LimitBlockSwitching(preset.block_switching, fp.frame_length)
        sc0 == [frame_length    |-> fp.frame_length,
                ra_distance     |-> fp.ra_distance,
                block_switching |-> bs,
                joint_stereo    |-> preset.joint_stereo,
                max_order       |-> av_clip(max_prediction_order, 0, 1023),
                samples         |-> SAMPLES_UNKNOWN]
        chans == 0 .. channels - 1
        pairs == 0 .. ((channels + 1) \div 2) - 1
        nodes == 0 .. NumBsSizes(bs) - 1
    IN  /\ sconf = [sc0 EXCEPT !.samples = 0]
        /\ avctx = [channels |-> channels, frame_size |-> fp.frame_length,
                    extradata |-> write_specific_config(sc0, channels)]
        /\ merge_algorithm = preset.merge_algorithm
        /\ ra_counter = 0
        /\ flushed = 0
        /\ next_pts = 0
        /\ independent_bs = [c \in chans |-> 0]
        /\ bs_info = [c \in chans |-> 0]
        /\ num_blocks = [c \in chans |-> 0]
        /\ blocks = [c \in chans |-> [b \in 0 .. ALS_MAX_BLOCKS - 1 |-> EmptyBlock]]
        /\ bs_sizes = [c \in chans |-> [n \in nodes |-> 0]]
        /\ js_sizes = [p \in pairs |-> [n \in nodes |-> 0]]
        /\ js_infos = [p \in pairs |-> [n \in nodes |-> 0]]
        /\ raw_samples = [c \in chans |->
                            [i \in (0 - LaneBack(preset.long_term_prediction, sc0.max_order))
                                      .. fp.frame_length - 1 |-> 0]]
        /\ avpkt = [size |-> 0, pts |-> AV_NOPTS_VALUE, duration |-> 0,
                    side_data |-> NoSideData]
        /\ got_packet_ptr = 0
        /\ ret = 0
        /\ call = [kind |-> "init"]
        /\ n_frames = 0
        /\ ok_samples = 0
        /\ flush_packets = 0
        /\ null_calls = 0
        /\ bs_log = {}

(***************************************************************************)
(* encode_frame, step by step.                                             *)
(***************************************************************************)

(* "determine if this is an RA frame": ra_block of the first block and the *)
(* counter after the frame.                                                *)
RaBlock(counter) == IF counter = 0 THEN 1 ELSE 0

(* Variant: the counter is never set back to 0.                            *)
RaCounterNext_no_wrap(counter, ra_distance) ==
    IF ra_distance # 0 THEN counter + 1 ELSE counter

RaCounterNext(counter, ra_distance) ==
    IF ra_distance # 0
    THEN (IF counter + 1 = ra_distance THEN 0 ELSE counter + 1)
    ELSE counter

(* deinterleave_raw_samples with shift 0: sample s of channel c is the     *)
(* element s * channels + c of the interleaved input.                      *)
deinterleave_raw_samples(raw, channels, frame_size, data) ==
    [c \in DOMAIN raw |->
        [i \in DOMAIN raw[c] |->
            IF i >= 0 /\ i < frame_size THEN data[i * channels + c] ELSE raw[c][i]]]

(* "update sample count"                                                   *)
(* Variant: the samples are counted whether or not the frame was written. *)
SamplesNext_always(samples, frame_data_size, nb_samples) == samples + nb_samples

SamplesNext(samples, frame_data_size, nb_samples) ==
    IF frame_data_size >= 0 THEN samples + nb_samples ELSE samples

(* "store previous samples": memcpy of max_order samples from the end of   *)
(* the frame to the positions before it.  When frame_size < max_order the  *)
(* two ranges overlap and the result depends on the direction of the copy. *)
RECURSIVE CopyBackward(_, _, _)
CopyBackward(lane, frame_size, i) ==
    IF i + frame_size >= 0 THEN lane[i + frame_size]
    ELSE CopyBackward(lane, frame_size, i + frame_size)

(* Variant: nothing is stored.                                             *)
StoreHistory_none(raw, max_order, frame_size, dir) == raw

StoreHistory(raw, max_order, frame_size, dir) ==
    [c \in DOMAIN raw |->
        [i \in DOMAIN raw[c] |->
            IF i < 0 /\ i >= 0 - max_order
            THEN (IF dir = "forward" THEN raw[c][i + frame_size]
                  ELSE CopyBackward(raw[c], frame_size, i))
            ELSE raw[c][i]]]

CopyDirections(max_order, frame_size) ==
    IF frame_size < max_order THEN {"forward", "backward"} ELSE {"forward"}

(* The values the partitioning functions read from the context.            *)
Env(nb_samples) ==
    [frame_length    |-> sconf.frame_length,
     block_switching |-> sconf.block_switching,
     joint_stereo    |-> sconf.joint_stereo,
     channels        |-> avctx.channels,
     frame_size      |-> nb_samples,
     merge_algorithm |-> merge_algorithm]

Ctx(blk) ==
    [bs_info |-> bs_info, num_blocks |-> num_blocks, blocks |-> blk,
     bs_sizes |-> bs_sizes, js_sizes |-> js_sizes, js_infos |-> js_infos,
     independent_bs |-> independent_bs, bs_log |-> {}]

(* The packet fields als_encode_frame sets after encode_frame: always when *)
(* ra_distance < 2, otherwise only under the condition tested there.       *)
SetsPacketFields(ra_distance, counter, frame_size, frame_length) ==
    \/ ra_distance < 2
    \/ counter + 1 = ra_distance
    \/ frame_size # frame_length

(***************************************************************************)
(* als_encode_frame with a frame.  frame = [nb_samples, pts, data]; in_bs  *)
(* and in_js are the block bit counts found for this frame; written is the *)
(* result of write_frame: the byte count of the frame, or -1 when the      *)
(* put-bits buffer of buf_size bytes is exhausted.                         *)
(***************************************************************************)
als_encode_frame(frame, in_bs, in_js, written, dir) ==
    LET e    == Env(frame.nb_samples)
        blk0 == IF sconf.ra_distance # 0
                THEN [c \in Channels |->
                        [blocks[c] EXCEPT ![0] = [@ EXCEPT !.ra_block = RaBlock(ra_counter)]]]
                ELSE blocks
        counter == RaCounterNext(ra_counter, sconf.ra_distance)
        raw1 == deinterleave_raw_samples(raw_samples, avctx.channels, frame.nb_samples, frame.data)
        buf_size == sconf.frame_length * avctx.channels * 32
        frame_data_size == written
        sets == SetsPacketFields(sconf.ra_distance, counter, frame.nb_samples, sconf.frame_length)
        duration == frame.nb_samples
    IN  \E C1 \in {select_difference_coding_mode(Ctx(blk0), e, in_bs, in_js)} :
        \E C2 \in {block_partitioning(C1, e)} :
        /\ sconf' = [sconf EXCEPT !.samples = SamplesNext(@, frame_data_size, frame.nb_samples)]
        /\ avctx' = [avctx EXCEPT !.frame_size = frame.nb_samples]
        /\ ra_counter' = counter
        /\ independent_bs' = C2.independent_bs
        /\ bs_info' = C2.bs_info
        /\ num_blocks' = C2.num_blocks
        /\ blocks' = C2.blocks
        /\ bs_sizes' = C2.bs_sizes
        /\ js_sizes' = C2.js_sizes
        /\ js_infos' = C2.js_infos
        /\ bs_log' = C2.bs_log
        /\ raw_samples' = StoreHistory(raw1, sconf.max_order, frame.nb_samples, dir)
        /\ avpkt' = [size      |-> IF sets THEN frame_data_size ELSE buf_size,
                     pts       |-> IF sets THEN frame.pts ELSE AV_NOPTS_VALUE,
                     duration  |-> IF sets THEN duration ELSE 0,
                     side_data |-> NoSideData]
        /\ got_packet_ptr' = 1
        /\ ret' = 0
        /\ next_pts' = IF sconf.ra_distance < 2 THEN frame.pts + duration ELSE next_pts
        /\ call' = [kind |-> "frame", nb_samples |-> frame.nb_samples, pts |-> frame.pts,
                    written |-> written, in_bs |-> in_bs, in_js |-> in_js]
        /\ n_frames' = n_frames + 1
        /\ ok_samples' = IF written >= 0 THEN ok_samples + frame.nb_samples ELSE ok_samples
        /\ UNCHANGED << merge_algorithm, flushed, flush_packets, null_calls >>

(***************************************************************************)
(* als_encode_frame with a null frame: the config is rewritten into        *)
(* extradata; while flushed is 0 the call attaches it to the packet as     *)
(* side data, sets pts and *got_packet_ptr and sets flushed.  The caller   *)
(* hands in a blank packet and *got_packet_ptr = 0; the function leaves    *)
(* both alone when flushed is set.                                         *)
(***************************************************************************)
(* Variant: the side-data packet is produced by every null-frame call.     *)
FlushEmits_always(flushed_flag) == TRUE

(* "if (!ctx->flushed)"                                                    *)
FlushEmits(flushed_flag) == flushed_flag = 0

als_encode_flush ==
    LET extradata == write_specific_config(sconf, avctx.channels)
        emits     == FlushEmits(flushed)
    IN  /\ avctx' = [avctx EXCEPT !.extradata = extradata]
        /\ avpkt' = [size |-> 0,
                     pts  |-> IF emits THEN next_pts ELSE AV_NOPTS_VALUE,
                     duration  |-> 0,
                     side_data |-> IF emits THEN extradata ELSE NoSideData]
        /\ got_packet_ptr' = IF emits THEN 1 ELSE 0
        /\ flushed' = IF emits THEN 1 ELSE flushed
        /\ ret' = 0
        /\ call' = [kind |-> "flush"]
        /\ flush_packets' = IF emits THEN flush_packets + 1 ELSE flush_packets
        /\ null_calls' = FFMIN(null_calls + 1, 2)
        /\ UNCHANGED << sconf, merge_algorithm, ra_counter, next_pts, independent_bs,
                        bs_info, num_blocks, blocks, bs_sizes, js_sizes, js_infos,
                        raw_samples, n_frames, ok_samples, bs_log >>

(***************************************************************************)
(* write_frame, "write blocks": the channels whose bs_info word is put     *)
(* into the frame, in order.  A word is written only with block switching; *)
(* after a channel with independent_bs = 0 the loop skips its buddy.       *)
(***************************************************************************)
RECURSIVE write_frame_bs_info(_, _, _, _)
write_frame_bs_info(c, channels, block_switching, indep) ==
    IF c >= channels THEN << >>
    ELSE (IF block_switching # 0 THEN << c >> ELSE << >>)
         \o write_frame_bs_info(IF indep[c] = 0 THEN c + 2 ELSE c + 1,
                                channels, block_switching, indep)

(***************************************************************************)
(* Inputs.  The presets: joint_stereo and block_switching of the           *)
(* ALSSpecificConfig preset of a compression level and merge_algorithm of  *)
(* its block switching stage.  The three levels use (0, 0, bottom-up),     *)
(* (1, 0, full search) and (1, 1, full search); the partitioning functions *)
(* take any depth up to 5, and the partitioning is explored for all        *)
(* depths up to MaxDepth with both merge algorithms.                       *)
(***************************************************************************)
LevelPresets ==
    { [joint_stereo |-> FALSE, block_switching |-> 0, long_term_prediction |-> FALSE,
       merge_algorithm |-> BS_ALGORITHM_BOTTOM_UP],
      [joint_stereo |-> TRUE,  block_switching |-> 0, long_term_prediction |-> FALSE,
       merge_algorithm |-> BS_ALGORITHM_FULL_SEARCH],
      [joint_stereo |-> TRUE,  block_switching |-> 1, long_term_prediction |-> TRUE,
       merge_algorithm |-> BS_ALGORITHM_FULL_SEARCH] }

AllPresets ==
    [joint_stereo : BOOLEAN, block_switching : 0 .. MaxDepth, long_term_prediction : {FALSE},
     merge_algorithm : {BS_ALGORITHM_BOTTOM_UP, BS_ALGORITHM_FULL_SEARCH}]

RECURSIVE Level(_)
Level(n) == IF n = 0 THEN 0 ELSE 1 + Level((n - 1) \div 2)

(* The node at the mirrored position of the level of n.                    *)
MirrorNode(n) == 3 * Pow2(Level(n)) - 3 - n

(* The size tables of a frame: channel tables made from one table of bit   *)
(* counts (odd channels take it mirrored when variant = 1), and one bit    *)
(* count for all blocks of the difference signal.                          *)
SizeTables(base, variant, js_cost) ==
    [in_bs |-> [c \in Channels |->
                  [n \in DOMAIN base |->
                      IF variant = 1 /\ c % 2 = 1 THEN base[MirrorNode(n)] ELSE base[n]]],
     in_js |-> [p \in Pairs |-> [n \in DOMAIN base |-> js_cost]]]

Nodes == 0 .. NumBsSizes(sconf.block_switching) - 1

PartTables ==
    { SizeTables(base, variant, js_cost) :
        base \in [Nodes -> 1 .. MaxCost],
        variant \in (IF avctx.channels > 1 THEN {0, 1} ELSE {0}),
        js_cost \in (IF sconf.joint_stereo /\ avctx.channels > 1 THEN 1 .. MaxCost ELSE {1}) }

(* The table in which every block costs 1 bit except the whole frame.      *)
EncTables ==
    { SizeTables([n \in Nodes |-> IF n = 0 THEN MaxCost ELSE 1], 0, 1) }

FrameData(nb_samples) ==
    { [i \in 0 .. nb_samples * avctx.channels - 1 |-> (first + i) % (MaxSample + 1)] :
        first \in 0 .. MaxSample }

ZeroData(nb_samples) == [i \in 0 .. nb_samples * avctx.channels - 1 |-> 0]

WriteResults == {-1} \cup 1 .. MaxBytes

(***************************************************************************)
(* Spec: the encoder over a sequence of calls.                             *)
(***************************************************************************)
Init ==
    /\ NoBlockSearch
    /\ NoMuxer
    /\ NoFunction
    /\ \E preset \in LevelPresets, channels \in 1 .. MaxChannels,
          gop_size \in 0 .. MaxGop, max_prediction_order \in 0 .. MaxOrder :
        als_encode_init(preset, channels, 2, gop_size, max_prediction_order)

EncodeFrame ==
    /\ n_frames < MaxFrames
    /\ UNCHANGED << blockvars, muxvars, fnvars >>
    /\ \E nb_samples \in 1 .. sconf.frame_length :
       \E data \in FrameData(nb_samples), t \in EncTables, written \in WriteResults,
          dir \in CopyDirections(sconf.max_order, nb_samples) :
            als_encode_frame([nb_samples |-> nb_samples, pts |-> n_frames, data |-> data],
                             t.in_bs, t.in_js, written, dir)

Flush == als_encode_flush /\ UNCHANGED << blockvars, muxvars, fnvars >>

Next == EncodeFrame \/ Flush

Spec == Init /\ [][Next]_vars

(***************************************************************************)
(* SpecPart: the partitioning of one frame, over all size tables.          *)
(***************************************************************************)
InitPart ==
    /\ NoBlockSearch
    /\ NoMuxer
    /\ NoFunction
    /\ \E preset \in AllPresets, channels \in 1 .. MaxChannels,
          frame_size \in 2 .. MaxFrameLength :
        als_encode_init(preset, channels, frame_size, 0, 0)

PartitionFrame ==
    /\ n_frames < 1
    /\ UNCHANGED << blockvars, muxvars, fnvars >>
    /\ \E nb_samples \in 1 .. sconf.frame_length :
       \E t \in PartTables :
            als_encode_frame([nb_samples |-> nb_samples, pts |-> 0,
                              data |-> ZeroData(nb_samples)],
                             t.in_bs, t.in_js, 1, "forward")

NextPart == PartitionFrame

SpecPart == InitPart /\ [][NextPart]_vars

(***************************************************************************)
(* The block search: find_block_params on one block, and the fields        *)
(* write_block puts for it.  The floating-point analysis (windowed         *)
(* autocorrelation, reflection coefficients, their quantisation, the       *)
(* adaptive order estimate) is an input of the search: the reconstructed   *)
(* coefficients and the order are drawn from bounded sets.  The long-term  *)
(* predictor search and the BGMC arithmetic coder are not modelled.        *)
(* Samples and coefficients are int32_t values, kept as numbers.           *)
(***************************************************************************)
MaxBlockLength == 3
MaxBlockOrder == 2

(* x | y on two's complement numbers.                                      *)
RECURSIVE BitOr(_, _)
BitOr(x, y) ==
    IF x = 0 THEN y
    ELSE IF y = 0 THEN x
    ELSE IF x = -1 \/ y = -1 THEN -1
    ELSE 2 * BitOr(x \div 2, y \div 2) + (IF x % 2 = 1 \/ y % 2 = 1 THEN 1 ELSE 0)

(* av_log2: the index of the highest set bit, 0 for 0.                     *)
RECURSIVE av_log2(_)
av_log2(x) == IF x < 2 THEN 0 ELSE 1 + av_log2(x \div 2)

(* av_ceil_log2(x) = av_log2((x - 1) << 1)                                 *)
av_ceil_log2(x) == av_log2((x - 1) * 2)

(* The ALSSpecificConfig preset of a compression level, the fields the     *)
(* block search reads.                                                     *)
spc_config_settings(compression_level) ==
    IF compression_level = 0
    THEN [adapt_order |-> 0, max_order |-> 4, bgmc |-> 0, sb_part |-> 0]
    ELSE IF compression_level = 1
    THEN [adapt_order |-> 0, max_order |-> 10, bgmc |-> 0, sb_part |-> 1]
    ELSE [adapt_order |-> 1, max_order |-> 32, bgmc |-> 1, sb_part |-> 1]

(***************************************************************************)
(* get_specific_config: resolution from the sample format, the default of  *)
(* bits_per_raw_sample, max_rice_param, and the user's prediction order    *)
(* (a negative value keeps the preset) and coder type.                     *)
(***************************************************************************)
get_specific_config(compression_level, sample_fmt, bits_per_raw_sample, max_prediction_order, coder_type_ac) ==
    LET preset == spc_config_settings(compression_level)
        resolution == IF sample_fmt = "U8" THEN 0
                      ELSE IF sample_fmt = "S16" THEN 1
                      ELSE IF bits_per_raw_sample <= 24 THEN 2 ELSE 3
    IN  [compression_level   |-> compression_level,
         sample_fmt          |-> sample_fmt,
         resolution          |-> resolution,
         floating            |-> 0,
         bits_per_raw_sample |-> IF bits_per_raw_sample = 0
                                 THEN (resolution + 1) * 8
                                 ELSE bits_per_raw_sample,
         max_rice_param      |-> IF resolution > 1 THEN 31 ELSE 15,
         adapt_order         |-> preset.adapt_order,
         sb_part             |-> preset.sb_part,
         max_order           |-> IF max_prediction_order >= 0
                                 THEN av_clip(max_prediction_order, 0, 1023)
                                 ELSE preset.max_order,
         bgmc                |-> IF coder_type_ac THEN 1 ELSE preset.bgmc]

(* The stage presets stage_js_c0 .. stage_final_c2: the options the block  *)
(* search reads.  A field a preset leaves out is 0.                        *)
stage_settings(compression_level, which) ==
    IF compression_level = 0
    THEN [check_constant |-> 0, check_lsbs |-> 0,
          max_order |-> IF which = "STAGE_BLOCK_SWITCHING" THEN 4 ELSE 0,
          param_algorithm |-> "RICE_ESTIMATE", count_algorithm |-> "ESTIMATE"]
    ELSE IF compression_level = 1
    THEN [check_constant |-> 1, check_lsbs |-> 1,
          max_order |-> IF which = "STAGE_JOINT_STEREO" THEN 5 ELSE 0,
          param_algorithm |-> IF which = "STAGE_JOINT_STEREO"
                              THEN "RICE_ESTIMATE" ELSE "RICE_EXACT",
          count_algorithm |-> "EXACT"]
    ELSE [check_constant |-> 1, check_lsbs |-> 1, max_order |-> 0,
          param_algorithm |-> "BGMC_ESTIMATE", count_algorithm |-> "EXACT"]

(* als_encode_init, "set up stage options": the preset of the stage with   *)
(* the overrides from sconf.                                               *)
StageOptions(sc, which) ==
    LET preset == stage_settings(sc.compression_level, which)
        keeps_own == \/ which = "STAGE_JOINT_STEREO" /\ sc.compression_level <= 1
                     \/ which = "STAGE_BLOCK_SWITCHING" /\ sc.compression_level = 0
        bgmc_final == /\ which = "STAGE_FINAL"
                      /\ sc.bgmc # 0
                      /\ sc.compression_level < 2
    IN  [check_constant  |-> preset.check_constant,
         check_lsbs      |-> preset.check_lsbs,
         adapt_order     |-> sc.adapt_order,
         sb_part         |-> sc.sb_part,
         max_order       |-> IF keeps_own THEN FFMIN(sc.max_order, preset.max_order)
                             ELSE sc.max_order,
         param_algorithm |-> IF bgmc_final THEN "BGMC_ESTIMATE"
                             ELSE preset.param_algorithm,
         count_algorithm |-> preset.count_algorithm]

(***************************************************************************)
(* test_const_value on the signal cur of a block of the given length.      *)
(* Without check_constant the block is never constant and constant_value   *)
(* keeps the value it had.                                                 *)
(***************************************************************************)
(* Variant: the first two samples decide.                                  *)
AllSamplesEqual_first_two(cur, length) == length < 2 \/ cur[1] = cur[0]

AllSamplesEqual(cur, length) == \A j \in 1 .. length - 1 : cur[j] = cur[0]

test_const_value(st, sc, bk, cur) ==
    IF st.check_constant # 0
    THEN LET constant == IF AllSamplesEqual(cur, bk.length) THEN 1 ELSE 0
             val      == cur[0]
         IN  [bk EXCEPT !.constant = constant,
                        !.constant_value = IF constant = 1 THEN val ELSE @,
                        !.bits_const_block =
                            IF constant = 0 THEN 0
                            ELSE IF val = 0 THEN 6
                            ELSE 6 + (IF sc.floating # 0 THEN 24
                                      ELSE sc.bits_per_raw_sample)]
    ELSE [bk EXCEPT !.constant = 0]

(***************************************************************************)
(* test_zero_lsb: common is the OR of the samples; the loop returns at the *)
(* first odd value of common, otherwise the zero bits below the lowest set *)
(* bit are counted and the signal, with the max_order samples before the   *)
(* block, is shifted into the LSB buffer.  The count runs until a set bit  *)
(* is found: the function is entered for blocks that are not constant, and *)
(* every stage that checks LSBs checks for constant blocks, so common # 0. *)
(***************************************************************************)
RECURSIVE OrOfSamples(_, _)
OrOfSamples(cur, length) ==
    IF length = 0 THEN 0 ELSE BitOr(OrOfSamples(cur, length - 1), cur[length - 1])

RECURSIVE CountZeroLsbs(_)
CountZeroLsbs(common) ==
    IF common % 2 = 1 THEN 0 ELSE 1 + CountZeroLsbs(common \div 2)

test_zero_lsb(st, bk, cur) ==
    LET common == OrOfSamples(cur, bk.length)
        shift  == IF st.check_lsbs # 0 /\ common % 2 = 0 THEN CountZeroLsbs(common) ELSE 0
    IN  [shift_lsbs |-> shift,
         cur_ptr    |-> IF shift # 0
                        THEN [j \in DOMAIN cur |-> cur[j] \div Pow2(shift)]
                        ELSE cur]

(***************************************************************************)
(* Short-term prediction.  par, cof and lpc are arrays indexed from 0; a   *)
(* signal is a function on the positions -max_order .. length - 1 of the   *)
(* block, position 0 being its first sample.                               *)
(***************************************************************************)
INT32_MAX == 2147483647

(* MUL64(a, b), a 64-bit product, as hi * 2^20 + lo with 0 <= lo < 2^20.   *)
MUL64(a, b) ==
    LET a1  == a \div 1024
        a0  == a % 1024
        b1  == b \div 1024
        b0  == b % 1024
        mid == a1 * b0 + a0 * b1
        low == (mid % 1024) * 1024 + a0 * b0
    IN  [hi |-> a1 * b1 + mid \div 1024 + low \div 1048576, lo |-> low % 1048576]

(* (MUL64(a, b) + (1 << 19)) >> 20                                         *)
MulRound20(a, b) ==
    LET p == MUL64(a, b)
    IN  p.hi + (p.lo + 524288) \div 1048576

(* "tmp > INT32_MAX || tmp < INT32_MIN" for the 64-bit sum tmp = x + d of  *)
(* two 32-bit values.                                                      *)
ExceedsInt32(x, d) ==
    \/ x > 0 /\ d > INT32_MAX - x
    \/ x < 0 /\ d < (0 - INT32_MAX) - 1 - x

(* The loop of ff_als_parcor_to_lpc, from (i, j) on, and the statements    *)
(* after it.  The result is the return value and the array cof as the      *)
(* function leaves it.                                                     *)
RECURSIVE ParcorToLpcFrom(_, _, _, _, _)
ParcorToLpcFrom(i, j, k, par, cof) ==
    IF i < j
    THEN LET d1 == MulRound20(par[k], cof[j])
             d2 == MulRound20(par[k], cof[i])
         IN  IF ExceedsInt32(cof[i], d1) \/ ExceedsInt32(cof[j], d2)
             THEN [ret |-> -1, cof |-> cof]
             ELSE ParcorToLpcFrom(i + 1, j - 1, k, par,
                                  Table([cof EXCEPT ![i] = cof[i] + d1,
                                                    ![j] = cof[j] + d2]))
    ELSE IF i = j
    THEN LET d1 == MulRound20(par[k], cof[j])
         IN  IF ExceedsInt32(cof[i], d1)
             THEN [ret |-> -1, cof |-> cof]
             ELSE [ret |-> 0, cof |-> [cof EXCEPT ![i] = cof[i] + d1, ![k] = par[k]]]
    ELSE [ret |-> 0, cof |-> [cof EXCEPT ![k] = par[k]]]

ff_als_parcor_to_lpc(k, par, cof) == ParcorToLpcFrom(0, k - 1, k, par, cof)

(* LPC_PREDICT_SAMPLE: the sum of lpc[j-1] * smp[pos-j] over j = 1 ..      *)
(* order, as a 64-bit value in the form of MUL64, and the residual at pos. *)
RECURSIVE PredictSum(_, _, _, _)
PredictSum(lpc, smp, pos, order) ==
    IF order = 0 THEN [hi |-> 0, lo |-> 0]
    ELSE LET rest == PredictSum(lpc, smp, pos, order - 1)
             p    == MUL64(lpc[order - 1], smp[pos - order])
         IN  [hi |-> rest.hi + p.hi, lo |-> rest.lo + p.lo]

LPC_PREDICT_SAMPLE(lpc, smp, pos, order) ==
    LET y == PredictSum(lpc, smp, pos, order)
    IN  smp[pos] + y.hi + (y.lo + 524288) \div 1048576

(* calc_short_term_prediction keeps its working state in res (the residual *)
(* buffer), lpc (ctx->lpc_coeff), par (ctx->r_parcor_coeff) and i.         *)
(* "progressive prediction": for (i = 1; i < ra_order; i++) ...            *)
RECURSIVE ProgressivePrediction(_, _, _, _)
ProgressivePrediction(S, smp, i, ra_order) ==
    IF i < ra_order
    THEN LET res1 == [S.res EXCEPT ![i] = LPC_PREDICT_SAMPLE(S.lpc, smp, i, i)]
             conv == ff_als_parcor_to_lpc(i, S.par, S.lpc)
         IN  IF conv.ret # 0
             THEN [S EXCEPT !.ret = -1, !.res = res1, !.lpc = conv.cof, !.i = i]
             ELSE ProgressivePrediction([S EXCEPT !.res = Table(res1), !.lpc = Table(conv.cof)],
                                        smp, i + 1, ra_order)
    ELSE [S EXCEPT !.i = i]

(* The conversion of a block that is no random access block:               *)
(* for (j = 0; j < order; j++) ...                                         *)
RECURSIVE ConvertAll(_, _, _)
ConvertAll(S, j, order) ==
    IF j < order
    THEN LET conv == ff_als_parcor_to_lpc(j, S.par, S.lpc)
         IN  IF conv.ret # 0
             THEN [S EXCEPT !.ret = -1, !.lpc = conv.cof]
             ELSE ConvertAll([S EXCEPT !.lpc = Table(conv.cof)], j + 1, order)
    ELSE S

(* "zero unused coeffs for small frames": for (; i < sconf->max_order;     *)
(* i++) block->q_parcor_coeff[i] = ctx->r_parcor_coeff[i] = 0; the loop    *)
(* runs on the variable i of the function.                                 *)
ZeroUnusedCoeffs(S, max_order) ==
    [S EXCEPT !.par = [m \in DOMAIN S.par |-> IF m >= S.i /\ m < max_order THEN 0 ELSE S.par[m]],
              !.zeroed_from = S.i,
              !.i = FFMAX(S.i, max_order)]

(* "remaining residual samples": for (; i < block->length; i++), i being   *)
(* what the statements before have left in it.                             *)
ResumeAt(i_after_zeroing, ra_order) == i_after_zeroing

(* The loop counts with i while LPC_PREDICT_SAMPLE advances smp_ptr and    *)
(* res_ptr, which stand at the sample pos.                                 *)
RECURSIVE RemainingResiduals(_, _, _, _, _, _)
RemainingResiduals(res, lpc, smp, pos, i, stop) ==
    IF i < stop.length
    THEN RemainingResiduals(Table([res EXCEPT ![pos] = LPC_PREDICT_SAMPLE(lpc, smp, pos, stop.order)]),
                            lpc, smp, pos + 1, i + 1, stop)
    ELSE res

(***************************************************************************)
(* calc_short_term_prediction(ctx, block, order) with order > 0, on the    *)
(* signal smp; res is the residual buffer as it was, par the array         *)
(* ctx->r_parcor_coeff, lpc the array ctx->lpc_coeff as it was.  The       *)
(* result: ret, the residual buffer, lpc, par, and the index from which    *)
(* the coefficients were zeroed (max_order if none).                       *)
(***************************************************************************)
RandomAccessRemaining(sc, smp, ra_order, stop, S) ==
    IF S.ret # 0 THEN S
    ELSE [S EXCEPT !.res = RemainingResiduals(S.res, S.lpc, smp, ra_order,
                                              ResumeAt(S.i, ra_order), stop)]

RandomAccessZeroing(sc, smp, ra_order, stop, S) ==
    RandomAccessRemaining(sc, smp, ra_order, stop,
        IF S.ret = 0 /\ sc.adapt_order = 0 THEN ZeroUnusedCoeffs(S, sc.max_order) ELSE S)

RandomAccessPrediction(sc, smp, ra_order, stop, S) ==
    RandomAccessZeroing(sc, smp, ra_order, stop,
        ProgressivePrediction([S EXCEPT !.res = [S.res EXCEPT ![0] = smp[0]],
                                        !.lpc = ff_als_parcor_to_lpc(0, S.par, S.lpc).cof],
                              smp, 1, ra_order))

PlainPrediction(smp, stop, S) ==
    IF S.ret # 0 THEN S
    ELSE [S EXCEPT !.res = RemainingResiduals(S.res, S.lpc, smp, 0, 0, stop)]

calc_short_term_prediction(sc, bk, smp, res, par, lpc, order) ==
    LET S0 == [ret |-> 0, res |-> res, par |-> par, lpc |-> lpc, i |-> 0,
               zeroed_from |-> sc.max_order]
        stop == [length |-> bk.length, order |-> order]
    IN  IF bk.ra_block # 0
        THEN RandomAccessPrediction(sc, smp, FFMIN(order, bk.length), stop, S0)
        ELSE PlainPrediction(smp, stop, ConvertAll(S0, 0, order))

(***************************************************************************)
(* Entropy coding parameters.  The blocks of the model are shorter than 16 *)
(* samples, where every search uses one sub-block ("block->length < 16":   *)
(* sb_max = 1, p_max = 0).                                                 *)
(***************************************************************************)
(* (unsigned int)((2LL*v) ^ (int64_t)(v>>31)): 2v for v >= 0, -2v - 1 for  *)
(* v < 0.                                                                  *)
RiceMap(v) == IF v >= 0 THEN 2 * v ELSE (0 - 2 * v) - 1

abs(v) == IF v >= 0 THEN v ELSE 0 - v

(* v0 >> k for k up to 31 *)
ShiftRight(v0, k) == IF k >= 31 THEN 0 ELSE v0 \div Pow2(k)

(* The 32-bit value v0 of rice_count and set_sr_golomb_als as v0 >> 1 and   *)
(* v0 & 1: v0 itself may be as large as 2^32 - 1.                          *)
RiceHalf(v) == IF v >= 0 THEN v ELSE 0 - (v + 1)

RiceLow(v) == IF v < 0 THEN 1 ELSE 0

(* (int)(v0 + d) for d in 0..1, v0 = 2 * half + low: the sum is taken      *)
(* modulo 2^32 and values from 2^31 on become negative.                    *)
INT32_MIN == (0 - INT32_MAX) - 1

UnsignedToInt(half, low, d) ==
    IF half >= Pow2(30)
    THEN ((half - Pow2(30)) * 2 + INT32_MIN) + low + d
    ELSE IF 2 * half > INT32_MAX - (low + d)
    THEN INT32_MIN
    ELSE 2 * half + low + d

(* (int)(x + d) for an unsigned x below 2^31 and 0 <= d <= 32.             *)
UnsignedSumToInt(x, d) ==
    IF x > INT32_MAX - d THEN INT32_MIN + ((d - 1) - (INT32_MAX - x)) ELSE x + d

(* "return (v0 >> k) + 1 + k"                                              *)
rice_count(v, k) ==
    IF k = 0 THEN UnsignedToInt(RiceHalf(v), RiceLow(v), 1)
    ELSE UnsignedSumToInt(ShiftRight(RiceHalf(v), k - 1), 1 + k)

(* The sum of the values of an array at the positions from .. to - 1.      *)
RECURSIVE SumOver(_, _, _)
SumOver(values, from, to) ==
    IF from >= to THEN 0 ELSE values[from] + SumOver(values, from + 1, to)

(* "return FFMIN(k, max_param)"                                            *)
RiceParamLimit(k, max_param) == FFMIN(k, max_param)

(* estimate_rice_param, for sums that fit 32 bits.                         *)
estimate_rice_param(sum, length, max_param) ==
    IF sum <= length \div 2 THEN 0
    ELSE RiceParamLimit(av_log2((sum - length \div 2) \div length), max_param)

find_block_rice_params_est(cur, length, max_rice_param) ==
    estimate_rice_param(SumOver([j \in 0 .. length - 1 |-> RiceMap(cur[j])], 0, length),
                        length, max_rice_param)

(* subblock_ec_count_exact without BGMC, for the one sub-block of a block. *)
subblock_ec_count_exact(cur, sb_length, s, max_param, ra_subblock, order) ==
    LET n1 == IF ra_subblock /\ order > 0 THEN 1 ELSE 0
        n2 == IF ra_subblock /\ order > 1 THEN 1 ELSE 0
        n3 == IF ra_subblock /\ order > 2 THEN 1 ELSE 0
        c1 == IF n1 = 1 THEN rice_count(cur[0], max_param - 3) ELSE 0
        c2 == IF n2 = 1
              THEN rice_count(IF sb_length <= 1 THEN 0 ELSE cur[1], FFMIN(s + 3, max_param))
              ELSE 0
        c3 == IF n3 = 1
              THEN rice_count(IF sb_length <= 2 THEN 0 ELSE cur[2], FFMIN(s + 1, max_param))
              ELSE 0
        len == n1 + n2 + n3
        rest == [j \in 0 .. sb_length - 1 |-> IF j >= len THEN rice_count(cur[j], s) ELSE 0]
    IN  c1 + c2 + c3 + SumOver(rest, 0, sb_length)

(* find_block_rice_params_exact: the search "for (; k >= 0 && k <=         *)
(* ctx->max_rice_param; k += step)" from k on, best_k and its count c2     *)
(* being the best so far.                                                  *)
RECURSIVE RiceSearch(_, _, _, _, _, _)
RiceSearch(counts, k, step, best_k, c2, max_rice_param) ==
    IF k >= 0 /\ k <= max_rice_param
    THEN IF counts[k] < c2
         THEN RiceSearch(counts, k + step, step, k, counts[k], max_rice_param)
         ELSE best_k
    ELSE best_k

find_block_rice_params_exact(cur, length, max_rice_param, ra_block, order) ==
    LET counts == Table([k \in 0 .. max_rice_param |->
                            subblock_ec_count_exact(cur, length, k, max_rice_param,
                                                    ra_block # 0, order)])
        k0 == FFMIN(max_rice_param \div 3, max_rice_param - 1)
    IN  IF counts[k0 + 1] < counts[k0]
        THEN RiceSearch(counts, k0 + 2, 1, k0 + 1, counts[k0 + 1], max_rice_param)
        ELSE RiceSearch(counts, k0 - 1, -1, k0, counts[k0], max_rice_param)

(***************************************************************************)
(* estimate_bgmc_params: tmp = (int)(16.0 * (log2(sum) - log2(n) +         *)
(* OFFSET)), at least 0; sx = tmp & 0x0F, s = tmp >> 4.  With 2^OFFSET =   *)
(* 1.386 * sqrt(2) = 1.9601, tmp is 16 * log2(sum * 1.9601 / n) cut to an  *)
(* integer.  The model computes the logarithm of a ratio in sixteenths     *)
(* from its leading bits: the factor is taken as 49 / 25 and the powers    *)
(* 2^(j/16) to ten binary places.                                          *)
(***************************************************************************)
SixteenthPowers ==
    << 1069, 1117, 1166, 1218, 1272, 1328, 1387, 1448,
       1512, 1579, 1649, 1722, 1798, 1878, 1961 >>

(* floor(16 * log2(x)) for an integer x >= 1 *)
Log2Sixteenths(x) ==
    LET e == av_log2(x)
        m == IF e <= 10 THEN x * Pow2(10 - e) ELSE x \div Pow2(e - 10)
    IN  16 * e + Cardinality({ j \in DOMAIN SixteenthPowers : SixteenthPowers[j] <= m })

(* floor(num * 49 / 25) *)
TimesOffset(num) == 49 * (num \div 25) + (49 * (num % 25)) \div 25

estimate_bgmc_params(sum, length) ==
    IF sum = 0 THEN [s |-> 0, sx |-> 0]
    ELSE LET tmp == IF sum < 16384
                    THEN Log2Sixteenths(FFMAX(1, TimesOffset(sum * 1024) \div length)) - 160
                    ELSE Log2Sixteenths(TimesOffset(sum) \div length)
             tmp0 == FFMAX(tmp, 0)
         IN  [s |-> tmp0 \div 16, sx |-> tmp0 % 16]

find_block_bgmc_params_est(cur, length) ==
    estimate_bgmc_params(SumOver([j \in 0 .. length - 1 |-> abs(cur[j])], 0, length), length)

(* find_block_entropy_params: the parameters of the one sub-block.         *)
find_block_entropy_params(st, sc, bk, cur, order) ==
    IF st.param_algorithm = "BGMC_ESTIMATE"
    THEN LET p == find_block_bgmc_params_est(cur, bk.length)
         IN  [sub_blocks |-> 1, rice_param |-> << p.s >>, bgmc_param |-> << p.sx >>]
    ELSE IF st.param_algorithm = "RICE_ESTIMATE"
    THEN [sub_blocks |-> 1,
          rice_param |-> << find_block_rice_params_est(cur, bk.length, sc.max_rice_param) >>,
          bgmc_param |-> bk.ent_info.bgmc_param]
    ELSE [sub_blocks |-> 1,
          rice_param |-> << find_block_rice_params_exact(cur, bk.length, sc.max_rice_param,
                                                         bk.ra_block, order) >>,
          bgmc_param |-> bk.ent_info.bgmc_param]

(***************************************************************************)
(* quantize_parcor_coeffs writes the reconstructed coefficients of the     *)
(* indices below max_order into ctx->r_parcor_coeff: for the indices 0 and *)
(* 1, sign * 32 * ff_als_parcor_scaled_values[q + 64] with the sign 1 and  *)
(* -1, for the others (q << 14) + (1 << 13).  The table entry and the      *)
(* 7-bit value q chosen for a coefficient are inputs.                      *)
(***************************************************************************)
ReconstructedParcor(index, q_parcor, scaled_value) ==
    IF index = 0 THEN 32 * scaled_value
    ELSE IF index = 1 THEN 0 - 32 * scaled_value
    ELSE q_parcor * 16384 + 8192

quantize_parcor_coeffs(par, coefs, max_order) ==
    [m \in DOMAIN par |->
        IF m < max_order
        THEN ReconstructedParcor(m, coefs[m].q_parcor, coefs[m].scaled_value)
        ELSE par[m]]

(* "if (ctx->cur_stage->adapt_order) block->opt_order = 1;"                *)
FallbackOrder(stage_adapt_order, opt_order) ==
    IF stage_adapt_order # 0 THEN 1 ELSE opt_order

(***************************************************************************)
(* find_block_params(ctx, block).  an is what the numerical analysis       *)
(* yields for the block: coefs, the quantised coefficients; adapt_order,   *)
(* the order find_block_adapt_order settles on; and for the fallback after *)
(* an overflow, fallback, the quantised coefficients of the array parcor,  *)
(* of which only element 0 is set (to -0.9) and the others are read as     *)
(* they come from av_malloc_array.                                         *)
(***************************************************************************)
PredictionOutcome(pred, order, overflow, ret_fallback) ==
    [res |-> pred.res, par |-> pred.par, lpc |-> pred.lpc, zeroed_from |-> pred.zeroed_from,
     cur |-> pred.res, order |-> order, overflow |-> overflow, ret_fallback |-> ret_fallback]

(* "search for entropy coding (Rice/BGMC) parameters", on the outcome of   *)
(* the prediction.                                                         *)
SearchEntropyParams(st, sc, bk, shift_lsbs, bits_adapt_order, out) ==
    [bk EXCEPT !.shift_lsbs = shift_lsbs,
               !.bits_adapt_order = bits_adapt_order,
               !.opt_order = out.order,
               !.overflow = out.overflow,
               !.ret_fallback = out.ret_fallback,
               !.r_parcor_coeff = out.par,
               !.lpc_coeff = out.lpc,
               !.zeroed_from = out.zeroed_from,
               !.res = out.res,
               !.cur_ptr = out.cur,
               !.ent_info = find_block_entropy_params(st, sc, bk, out.cur, out.order),
               !.searched = TRUE]

(* The second call of calc_short_term_prediction; its return value is not  *)
(* read.                                                                   *)
FallbackPrediction(sc, bk, cur, an, order2, first) ==
    LET second == calc_short_term_prediction(sc, bk, cur, first.res,
                      quantize_parcor_coeffs(first.par, an.fallback, order2),
                      first.lpc, order2)
    IN  PredictionOutcome(second, order2, TRUE, second.ret)

(* "if (calc_short_term_prediction(ctx, block, block->opt_order)) { ... }" *)
GenerateResiduals(st, sc, bk, cur, an, order1, first) ==
    IF first.ret = 0
    THEN PredictionOutcome(first, order1, FALSE, 0)
    ELSE FallbackPrediction(sc, bk, cur, an, FallbackOrder(st.adapt_order, order1), first)

(* find_block_params from "calculate bits needed to store adaptive LPC     *)
(* order" on, cur being the signal after the LSB shift.                    *)
SearchPredictor(st, sc, bk, an, shift_lsbs, cur) ==
    LET bits_adapt_order ==
            IF sc.adapt_order # 0
            THEN av_ceil_log2(av_clip(bk.length \div 8 - 1, 2, sc.max_order + 1))
            ELSE 0
        max_order == IF sc.max_order # 0 /\ sc.adapt_order # 0
                     THEN FFMIN(st.max_order, Pow2(bits_adapt_order) - 1)
                     ELSE st.max_order
        par1 == IF sc.max_order # 0
                THEN quantize_parcor_coeffs(bk.r_parcor_coeff, an.coefs, max_order)
                ELSE bk.r_parcor_coeff
        order1 == IF sc.max_order # 0 /\ sc.adapt_order # 0 /\ st.adapt_order # 0
                  THEN FFMIN(an.adapt_order, max_order)
                  ELSE max_order
    IN  SearchEntropyParams(st, sc, bk, shift_lsbs, bits_adapt_order,
            IF order1 # 0
            THEN GenerateResiduals(st, sc, bk, cur, an, order1,
                     calc_short_term_prediction(sc, bk, cur, bk.res, par1, bk.lpc_coeff, order1))
            ELSE [res |-> bk.res, par |-> par1, lpc |-> bk.lpc_coeff,
                  zeroed_from |-> sc.max_order, cur |-> cur, order |-> 0,
                  overflow |-> FALSE, ret_fallback |-> 0])

AfterLsbTest(st, sc, bk, an, lsb) ==
    SearchPredictor(st, sc, bk, an, lsb.shift_lsbs, lsb.cur_ptr)

AfterConstTest(st, sc, bk, an, cur) ==
    IF bk.constant # 0
    THEN [bk EXCEPT !.cur_ptr = cur, !.searched = TRUE]
    ELSE AfterLsbTest(st, sc, bk, an, test_zero_lsb(st, bk, cur))

SearchSignal(st, sc, bk, an, cur) ==
    AfterConstTest(st, sc, test_const_value(st, sc, bk, cur), an, cur)

find_block_params(st, sc, bk, an) ==
    SearchSignal(st, sc, bk, an, IF bk.js_block # 0 THEN bk.dif ELSE bk.smp)

(***************************************************************************)
(* write_block up to the field of the prediction order: the fields put, in *)
(* order, each as << bits, value >>.  The coefficients and the residuals   *)
(* follow.                                                                 *)
(***************************************************************************)
write_block(sc, bk) ==
    IF bk.constant # 0
    THEN << << 1, 0 >>,
            << 1, IF bk.constant_value # 0 THEN 1 ELSE 0 >>,
            << 1, bk.js_block >>,
            << 5, 0 >> >>
         \o (IF bk.constant_value # 0
             THEN << << IF sc.floating # 0 THEN 24 ELSE sc.bits_per_raw_sample,
                        bk.constant_value >> >>
             ELSE << >>)
    ELSE LET wide == IF sc.bits_per_raw_sample > 16 THEN 1 ELSE 0
         IN  << << 1, 1 >>, << 1, bk.js_block >> >>
             \o (IF sc.sb_part # 0 /\ sc.bgmc # 0
                 THEN << << 2, av_log2(bk.ent_info.sub_blocks) >> >>
                 ELSE IF sc.sb_part # 0 \/ sc.bgmc # 0
                 THEN << << 1, IF bk.ent_info.sub_blocks > 1 THEN 1 ELSE 0 >> >>
                 ELSE << >>)
             \o (IF sc.bgmc # 0
                 THEN << << 8 + wide,
                            bk.ent_info.rice_param[1] * 16 + bk.ent_info.bgmc_param[1] >> >>
                 ELSE << << 4 + wide, bk.ent_info.rice_param[1] >> >>)
             \o << << 1, IF bk.shift_lsbs > 0 THEN 1 ELSE 0 >> >>
             \o (IF bk.shift_lsbs # 0 THEN << << 4, bk.shift_lsbs - 1 >> >> ELSE << >>)
             \o (IF sc.adapt_order # 0
                 THEN << << bk.bits_adapt_order, bk.opt_order >> >>
                 ELSE << >>)

(* The position of the s[0] field among the fields of a block that is not  *)
(* constant.                                                               *)
RiceFieldIndex(sc) == IF sc.sb_part # 0 \/ sc.bgmc # 0 THEN 4 ELSE 3

(***************************************************************************)
(* Inputs of the block search.                                             *)
(***************************************************************************)
(* The sample formats with the bits_per_raw_sample the caller sets (0: not *)
(* set).  AV_SAMPLE_FMT_FLT is not explored.                               *)
SampleFormats ==
    { << "U8", 0 >>, << "S16", 0 >>, << "S32", 0 >>, << "S32", 16 >>, << "S32", 32 >> }

(* The samples of a block lie in the range of bits_per_raw_sample bits;    *)
(* they are drawn from 0, 1 and the two ends of the range.  Ranges above   *)
(* 25 bits are explored up to 25 bits, where every sum of the search stays *)
(* within 32 bits.                                                         *)
SampleValues(bits_per_raw_sample) ==
    LET top == Pow2(FFMIN(bits_per_raw_sample, 25) - 1)
    IN  {0, 1, 0 - top, top - 1}

(* A signal: hist at the positions before the block, body in the block.    *)
Signal(hist, body, max_order, length) ==
    [j \in (0 - max_order) .. length - 1 |-> IF j < 0 THEN hist ELSE body[j]]

(* gen_dif_signal: "*d++ = *c2 - *c1", the block being of channel c1.  The *)
(* other channel is silent or holds the complement of the block's channel. *)
gen_dif_signal(smp, buddy) ==
    [j \in DOMAIN smp |-> (IF buddy = "silent" THEN 0 ELSE (0 - 1) - smp[j]) - smp[j]]

NewBlock(sc, length, ra_block, js_block, smp, buddy, stale) ==
    [length |-> length, ra_block |-> ra_block, js_block |-> js_block,
     smp |-> smp, dif |-> gen_dif_signal(smp, buddy),
     constant |-> 0, constant_value |-> 0, bits_const_block |-> 0,
     shift_lsbs |-> 0, bits_adapt_order |-> 0, opt_order |-> 0,
     r_parcor_coeff |-> [m \in 0 .. sc.max_order - 1 |-> 0],
     lpc_coeff |-> [m \in 0 .. sc.max_order - 1 |-> 0],
     zeroed_from |-> sc.max_order,
     res |-> [j \in 0 .. length - 1 |-> stale],
     cur_ptr |-> smp,
     ent_info |-> [sub_blocks |-> 1, rice_param |-> << 0 >>, bgmc_param |-> << 0 >>],
     overflow |-> FALSE, ret_fallback |-> 0, searched |-> FALSE]

(* The encoder variables while the model runs the block search.            *)
NoFrames ==
    /\ sconf = << >>
    /\ avctx = << >>
    /\ merge_algorithm = 0
    /\ ra_counter = 0
    /\ flushed = 0
    /\ next_pts = 0
    /\ independent_bs = << >>
    /\ bs_info = << >>
    /\ num_blocks = << >>
    /\ blocks = << >>
    /\ bs_sizes = << >>
    /\ js_sizes = << >>
    /\ js_infos = << >>
    /\ raw_samples = << >>
    /\ avpkt = << >>
    /\ got_packet_ptr = 0
    /\ ret = 0
    /\ call = [kind |-> "block"]
    /\ n_frames = 0
    /\ ok_samples = 0
    /\ flush_packets = 0
    /\ null_calls = 0
    /\ bs_log = {}

Stages == {"STAGE_JOINT_STEREO", "STAGE_BLOCK_SWITCHING", "STAGE_FINAL"}

(***************************************************************************)
(* SpecBlock: the search of one short block, over the compression levels,  *)
(* stages, sample formats and samples, and the fields written for it after *)
(* the final stage.                                                        *)
(***************************************************************************)
InitBlock ==
    /\ NoFrames
    /\ NoMuxer
    /\ NoFunction
    /\ pb = << >>
    /\ \E compression_level \in 0 .. 2, fmt \in SampleFormats,
          max_prediction_order \in {0, MaxBlockOrder}, coder_type_ac \in BOOLEAN,
          which \in Stages :
        /\ cfg = get_specific_config(compression_level, fmt[1], fmt[2],
                                     max_prediction_order, coder_type_ac)
        /\ cur_stage = StageOptions(cfg, which) @@ [which |-> which]
        /\ \E length \in 1 .. MaxBlockLength, ra_block \in {0, 1},
              source \in {"own", "silent", "complement"} :
           \E body \in [0 .. length - 1 -> SampleValues(cfg.bits_per_raw_sample)],
              hist \in {0, Pow2(FFMIN(cfg.bits_per_raw_sample, 25) - 1) - 1} :
                cur_block = NewBlock(cfg, length, ra_block,
                                     IF source = "own" THEN 0 ELSE 1,
                                     Signal(hist, body, cfg.max_order, length),
                                     IF source = "own" THEN "silent" ELSE source, 9)

(* What the analysis can yield for a short block.                          *)
ScaledValues == {16384, 0 - 29519}

QuantizedValues == IF cfg.max_order > MaxBlockOrder THEN {20, 63} ELSE {20}

(* What av_malloc_array leaves in parcor[1] and above, as the 7-bit value  *)
(* it quantises to.                                                        *)
UninitializedValues == IF cfg.max_order > MaxBlockOrder THEN {0, 63} ELSE {0}

BlockAnalyses ==
    { [coefs     |-> [m \in 0 .. cfg.max_order - 1 |-> [q_parcor |-> q, scaled_value |-> v]],
       fallback  |-> [m \in 0 .. cfg.max_order - 1 |->
                         IF m = 0 THEN [q_parcor |-> 0 - 36, scaled_value |-> 0 - 29519]
                         ELSE [q_parcor |-> u, scaled_value |-> v]],
       adapt_order |-> o] :
        q \in QuantizedValues, u \in UninitializedValues,
        v \in IF cfg.max_order = 0 THEN {16384} ELSE ScaledValues,
        o \in IF cfg.adapt_order # 0 THEN 0 .. cfg.max_order ELSE {0} }

FindBlockParams ==
    /\ ~cur_block.searched
    /\ \E an \in BlockAnalyses :
        cur_block' = find_block_params(cur_stage, cfg, cur_block, an)
    /\ UNCHANGED << encvars, cfg, cur_stage, pb, muxvars, fnvars >>

WriteBlock ==
    /\ cur_block.searched
    /\ cur_stage.which = "STAGE_FINAL"
    /\ pb = << >>
    /\ pb' = write_block(cfg, cur_block)
    /\ UNCHANGED << encvars, cfg, cur_stage, cur_block, muxvars, fnvars >>

NextBlock == FindBlockParams \/ WriteBlock

SpecBlock == InitBlock /\ [][NextBlock]_vars

(***************************************************************************)
(* SpecLong: the search of one block with a user-set prediction order of   *)
(* LongOrder, where the stages of the levels 0 and 1 use different orders  *)
(* and the conversion of the coefficients can leave the 32-bit range.      *)
(***************************************************************************)
LongOrder == 17
LongLength == 6

InitLong ==
    /\ NoFrames
    /\ NoMuxer
    /\ NoFunction
    /\ pb = << >>
    /\ \E compression_level \in 0 .. 2, which \in Stages :
        /\ cfg = get_specific_config(compression_level, "S16", 0, LongOrder, FALSE)
        /\ cur_stage = StageOptions(cfg, which) @@ [which |-> which]
        /\ \E length \in 1 .. LongLength, ra_block \in {0, 1} :
           \E body \in [0 .. length - 1 -> {0, 3}], hist \in {0, 3} :
                cur_block = NewBlock(cfg, length, ra_block, 0,
                                     Signal(hist, body, cfg.max_order, length),
                                     "silent", 9)

SpecLong == InitLong /\ [][NextBlock]_vars

(***************************************************************************)
(* The raw ALS muxer (libavformat/alsenc.c).  The file is the sequence of  *)
(* bytes sink.buf with the write position sink.pos (0 at the start).  The  *)
(* extradata is a sequence of bytes of which the first stands for the      *)
(* AudioSpecificConfig: it holds the number of bits                       *)
(* avpriv_mpeg4audio_get_config finds it to have, 0 if it does not parse.  *)
(***************************************************************************)
MaxPackets == 2

avio_write(sk, data) ==
    LET size == FFMAX(Len(sk.buf), sk.pos + Len(data))
    IN  [sk EXCEPT !.buf = [at \in 1 .. size |->
                               IF at > sk.pos /\ at <= sk.pos + Len(data)
                               THEN data[at - sk.pos] ELSE sk.buf[at]],
                   !.pos = sk.pos + Len(data)]

avio_seek(sk, offset) == [sk EXCEPT !.pos = offset]

avio_tell(sk) == sk.pos

(* The offset in bits of the ALSSpecificConfig in the extradata, negative  *)
(* if the extradata does not parse.                                        *)
avpriv_mpeg4audio_get_config(extradata) ==
    IF Len(extradata) = 0 \/ extradata[1] = 0 \/ extradata[1] > 8 * Len(extradata)
    THEN -1
    ELSE extradata[1]

(* memcpy(dst, src, size) within the size of dst.                          *)
memcpy(dst, src, size) ==
    [at \in 1 .. Len(dst) |-> IF at <= size THEN src[at] ELSE dst[at]]

(* "&par->extradata[config_offset]", ctx->header_size bytes.               *)
HeaderBytes(extradata, config_offset, header_size) ==
    SubSeq(extradata, config_offset + 1, config_offset + header_size)

(* als_write_header(s, side_data): the return value and the stream         *)
(* parameters, the context and the file as it leaves them.                 *)
als_write_header(cp, pd, sk, side_data) ==
    LET bits == avpriv_mpeg4audio_get_config(cp.extradata)
        config_offset == (bits + 7) \div 8
        header_size == Len(cp.extradata) - config_offset
        extradata == memcpy(cp.extradata, side_data, pd.extradata_size)
    IN  IF bits < 0
        THEN [ret |-> -1, codecpar |-> cp, priv_data |-> pd, sink |-> sk]
        ELSE [ret |-> 0,
              codecpar |-> [cp EXCEPT !.extradata = extradata],
              priv_data |-> [pd EXCEPT !.header_size = header_size],
              sink |-> avio_write(sk, HeaderBytes(extradata, config_offset, header_size))]

(* als_write_packet(s, pkt): pkt.side_data is << >> when the packet has no *)
(* AV_PKT_DATA_NEW_EXTRADATA.  av_malloc succeeds.                         *)
als_write_packet(pd, sk, pkt) ==
    [priv_data |-> IF pkt.side_data # << >>
                   THEN [pd EXCEPT !.side_data = pkt.side_data,
                                   !.extradata_size = Len(pkt.side_data)]
                   ELSE pd,
     sink |-> IF Len(pkt.data) # 0 THEN avio_write(sk, pkt.data) ELSE sk]

MismatchWarning == "ALS header size mismatch. Unable to rewrite header."
UnseekableWarning == "unable to rewrite ALS header."

(* The rest of als_write_trailer after its call of als_write_header, whose *)
(* result is written.                                                      *)
AfterRewrite(file_size, header_size, written) ==
    IF written.ret # 0
    THEN [ret |-> -1, codecpar |-> written.codecpar, priv_data |-> written.priv_data,
          sink |-> written.sink, log |-> {}]
    ELSE [ret |-> 0, codecpar |-> written.codecpar,
          priv_data |-> [written.priv_data EXCEPT !.side_data = << >>],
          sink |-> avio_seek(written.sink, file_size),
          log |-> IF header_size # written.priv_data.header_size
                  THEN {MismatchWarning} ELSE {}]

als_write_trailer(cp, pd, sk) ==
    IF sk.seekable
    THEN AfterRewrite(avio_tell(sk), pd.header_size,
                      als_write_header(cp, pd, avio_seek(sk, 0),
                                       IF pd.side_data # << >> THEN pd.side_data
                                       ELSE cp.extradata))
    ELSE [ret |-> 0, codecpar |-> cp, priv_data |-> [pd EXCEPT !.side_data = << >>],
          sink |-> sk, log |-> {UnseekableWarning}]

(***************************************************************************)
(* Inputs of the muxer.                                                    *)
(***************************************************************************)
(* The extradata of the stream: an AudioSpecificConfig of 8 bits, one of 9 *)
(* bits, and one that does not parse.                                      *)
Extradatas == { << 8, 21, 22 >>, << 9, 0, 23 >>, << 0, 24 >> }

(* The side data of a packet is an extradata of the encoder with the size  *)
(* and the AudioSpecificConfig of the first one.                           *)
SideDatas(extradata) ==
    { [extradata EXCEPT ![Len(extradata)] = 31], [extradata EXCEPT ![Len(extradata)] = 32] }

(* What the caller can put in place of the extradata of the stream before  *)
(* the file is closed: the same size, one byte more, or a longer           *)
(* AudioSpecificConfig.                                                    *)
NewExtradatas(extradata) ==
    { [extradata EXCEPT ![Len(extradata)] = 41],
      extradata \o << 42 >>,
      [extradata EXCEPT ![1] = 8 * (Len(extradata) - 1)] }

PacketDatas == { << >>, << 1 >>, << 2, 3 >> }

(***************************************************************************)
(* SpecMux: a file is opened, packets are written, the file is closed.     *)
(***************************************************************************)
InitMux ==
    /\ NoFrames
    /\ NoBlockSearch
    /\ NoFunction
    /\ \E extradata \in Extradatas, seekable \in BOOLEAN :
        /\ codecpar = [extradata |-> extradata]
        /\ sink = [seekable |-> seekable, buf |-> << >>, pos |-> 0]
        /\ mux = [phase |-> "new", ret |-> 0, log |-> {}, packets |-> 0, replaced |-> FALSE,
                  original_extradata |-> extradata, first_header |-> << >>,
                  first_header_size |-> 0, payload |-> << >>, last_side_data |-> << >>,
                  before_close |-> << >>]
    /\ priv_data = [header_size |-> 0, extradata_size |-> 0, side_data |-> << >>]

(* The first call of als_write_header, through write_header: its second    *)
(* argument is not passed and ctx->extradata_size is 0, so nothing is      *)
(* copied from it.                                                         *)
WriteHeader ==
    /\ mux.phase = "new"
    /\ \E written \in {als_write_header(codecpar, priv_data, sink, << >>)} :
        /\ codecpar' = written.codecpar
        /\ priv_data' = written.priv_data
        /\ sink' = written.sink
        /\ mux' = [mux EXCEPT !.phase = IF written.ret = 0 THEN "open" ELSE "failed",
                              !.ret = written.ret,
                              !.first_header = written.sink.buf,
                              !.first_header_size = written.priv_data.header_size]
    /\ UNCHANGED << encvars, blockvars, fnvars >>

WritePacket ==
    /\ mux.phase = "open"
    /\ mux.packets < MaxPackets
    /\ \E data \in PacketDatas,
          side_data \in {<< >>} \cup SideDatas(mux.original_extradata) :
       \E written \in {als_write_packet(priv_data, sink,
                                        [data |-> data, side_data |-> side_data])} :
        /\ priv_data' = written.priv_data
        /\ sink' = written.sink
        /\ mux' = [mux EXCEPT !.packets = @ + 1,
                              !.payload = @ \o data,
                              !.last_side_data = IF side_data # << >> THEN side_data ELSE @]
    /\ UNCHANGED << encvars, blockvars, fnvars, codecpar >>

(* The caller replaces the extradata of the stream, once.                  *)
ReplaceExtradata ==
    /\ mux.phase = "open"
    /\ ~mux.replaced
    /\ \E extradata \in NewExtradatas(codecpar.extradata) :
        codecpar' = [codecpar EXCEPT !.extradata = extradata]
    /\ mux' = [mux EXCEPT !.replaced = TRUE]
    /\ UNCHANGED << encvars, blockvars, fnvars, priv_data, sink >>

WriteTrailer ==
    /\ mux.phase = "open"
    /\ \E closed \in {als_write_trailer(codecpar, priv_data, sink)} :
        /\ codecpar' = closed.codecpar
        /\ priv_data' = closed.priv_data
        /\ sink' = closed.sink
        /\ mux' = [mux EXCEPT !.phase = "closed", !.ret = closed.ret, !.log = closed.log,
                              !.before_close = sink.buf]
    /\ UNCHANGED << encvars, blockvars, fnvars >>

NextMux == WriteHeader \/ WritePacket \/ ReplaceExtradata \/ WriteTrailer

SpecMux == InitMux /\ [][NextMux]_vars

(***************************************************************************)
(* Properties.                                                             *)
(***************************************************************************)

(* The channels whose tree is chosen on its own sizes, and the first       *)
(* channel of a pair coded with one common tree.                           *)
CodedAlone(c) == independent_bs[c] = 1

PairLeader(c) == independent_bs[c] = 0 /\ c % 2 = 0

TreeOwners == { c \in Channels : CodedAlone(c) \/ PairLeader(c) }

(* The cost the merge of channel c compares: the size of the channel, or   *)
(* of both channels of the pair.                                           *)
NodeCost(c, n) ==
    IF CodedAlone(c) THEN bs_sizes[c][n] ELSE bs_sizes[c][n] + bs_sizes[c + 1][n]

TreeCost(c, bs) ==
    IF CodedAlone(c) THEN bs_get_size(bs, 0, bs_sizes[c])
    ELSE bs_get_size(bs, 0, bs_sizes[c]) + bs_get_size(bs, 0, bs_sizes[c + 1])

(* bs is a tree of depth at most D: a set bit has its parent's bit set and *)
(* lies above level D.                                                     *)
IsTree(bs, D) ==
    \A n \in 0 .. 30 :
        NodeBit(bs, n) => /\ Level(n) < D
                          /\ n > 0 => NodeBit(bs, (n - 1) \div 2)

(* All trees of depth at most D below node n, as bs_info words.            *)
RECURSIVE TreesAt(_, _)
TreesAt(n, D) ==
    IF Level(n) >= D THEN {0}
    ELSE {0} \cup { Pow2(30 - n) + x + y :
                      x \in TreesAt(2 * n + 1, D), y \in TreesAt(2 * n + 2, D) }

FullTree(D) == IF D = 0 THEN 0 ELSE BsInfoTmp(Pow2(D) - 1)

AfterFrame == call.kind = "frame"

(* C1: after block_partitioning of a frame of frame_size samples, short    *)
(* frames included, the blocks 0 .. num_blocks[c] - 1 of every channel     *)
(* have lengths of at least 1 that sum to frame_size.                      *)
C1_BlockLengthsSumToFrameSize ==
    AfterFrame =>
        \A c \in Channels :
            /\ num_blocks[c] \in 1 .. ALS_MAX_BLOCKS
            /\ SumLengths(blocks[c], num_blocks[c]) = call.nb_samples
            /\ \A b \in 0 .. num_blocks[c] - 1 : blocks[c][b].length >= 1

(* A short frame of 3 samples in a frame length of 4, cut to the blocks    *)
(* 1 1 1 of the depth-2 tree.                                              *)
C1_Witness ==
    /\ AfterFrame
    /\ sconf.frame_length = 4 /\ call.nb_samples = 3
    /\ num_blocks[0] = 3
    /\ blocks[0][2].div_block = -1 /\ blocks[0][2].length = 1

(* C3: with ra_distance = R >= 1 the first block of every channel is an RA *)
(* block in exactly the frames whose index (counted from 0) is a multiple  *)
(* of R; with R = 0 it never is.                                           *)
C3_RaBlockEveryRthFrame ==
    n_frames >= 1 =>
        \A c \in Channels :
            blocks[c][0].ra_block =
                IF sconf.ra_distance >= 1 /\ (n_frames - 1) % sconf.ra_distance = 0
                THEN 1 ELSE 0

(* The third frame (index 2) at distance 2 is an RA frame again.           *)
C3_Witness ==
    /\ AfterFrame
    /\ sconf.ra_distance = 2 /\ n_frames = 3
    /\ blocks[0][0].ra_block = 1

(* C4, as claimed: when write_frame fails, als_encode_frame returns a      *)
(* negative value and reports no packet.                                   *)
C4_WriteFailureIsReported ==
    (AfterFrame /\ call.written < 0) => (ret < 0 /\ got_packet_ptr = 0)

(* C5, as claimed: a call whose write_frame fails leaves the samples       *)
(* counter, the RA counter and the stored sample history as they were.     *)
C5_FailedFrameLeavesNoTrace ==
    [][(call'.kind = "frame" /\ call'.written < 0) =>
          /\ sconf'.samples = sconf.samples
          /\ ra_counter' = ra_counter
          /\ \A c \in Channels :
               \A i \in (0 - sconf.max_order) .. -1 :
                   raw_samples'[c][i] = raw_samples[c][i]]_vars

(* C6: the samples counter never decreases, and the samples field of the   *)
(* config written by a null-frame call is the sum of nb_samples over the   *)
(* frames written successfully before it.                                  *)
C6_SamplesCountWrittenFrames ==
    [][/\ sconf'.samples >= sconf.samples
       /\ call'.kind = "flush" => avctx'.extradata.samples = ok_samples]_vars

(* A flush after three frames of which at least one failed: three written  *)
(* frames would count 3 samples or more.                                   *)
C6_Witness ==
    /\ call.kind = "flush"
    /\ n_frames = 3 /\ ok_samples = 2
    /\ avctx.extradata.samples = 2

(* C7: the first null-frame call reports a packet whose side data is the   *)
(* rewritten config, every later one reports none, and no more than one    *)
(* such packet is ever reported.                                           *)
C7_OneFlushPacket ==
    [][call'.kind = "flush" =>
          /\ null_calls = 0 =>
                /\ got_packet_ptr' = 1
                /\ avpkt'.side_data = write_specific_config(sconf, avctx.channels)
                /\ avpkt'.side_data = avctx'.extradata
          /\ null_calls > 0 => (got_packet_ptr' = 0 /\ avpkt'.side_data = NoSideData)
          /\ flush_packets' <= 1]_vars

(* A second null-frame call, after frames were encoded.                    *)
C7_Witness ==
    /\ call.kind = "flush"
    /\ null_calls = 2 /\ n_frames >= 1
    /\ flush_packets = 1 /\ got_packet_ptr = 0

(* The nodes whose two children are leaves of the full tree and which no   *)
(* merge of an ancestor has cleared.                                       *)
LastSplits(c) ==
    { n \in 0 .. 30 : /\ Level(n) = sconf.block_switching - 1
                      /\ n > 0 => NodeBit(bs_info[c], (n - 1) \div 2) }

(* C8, as claimed: a node whose children together cost as much as the node *)
(* is merged, i.e. it stays split only when the children cost less.        *)
C8_TieIsMerged ==
    AfterFrame =>
        \A c \in TreeOwners : \A n \in LastSplits(c) :
            NodeBit(bs_info[c], n) <=>
                NodeCost(c, 2 * n + 1) + NodeCost(c, 2 * n + 2) < NodeCost(c, n)

(* C8, amended: a node is merged only when its children together cost      *)
(* more than the node; at equal cost it stays split.                       *)
C8_TieKeepsSplit ==
    AfterFrame =>
        \A c \in TreeOwners : \A n \in LastSplits(c) :
            NodeBit(bs_info[c], n) <=>
                NodeCost(c, 2 * n + 1) + NodeCost(c, 2 * n + 2) <= NodeCost(c, n)

(* A root left split at equal cost, by either strategy.                    *)
C8_Witness ==
    /\ AfterFrame
    /\ sconf.block_switching = 1
    /\ NodeBit(bs_info[0], 0)
    /\ NodeCost(0, 1) + NodeCost(0, 2) = NodeCost(0, 0)

(* C9: the tree bs_merge_fullsearch leaves has the least total leaf cost   *)
(* of all trees of depth at most D (for a pair: the cost of both           *)
(* channels).                                                              *)
C9_FullSearchMinimalCost ==
    (AfterFrame /\ merge_algorithm = BS_ALGORITHM_FULL_SEARCH) =>
        \A c \in TreeOwners :
            \A t \in TreesAt(0, sconf.block_switching) :
                TreeCost(c, bs_info[c]) <= TreeCost(c, t)

(* The whole frame is chosen although a node below the root stays split    *)
(* when looked at alone, which the bottom-up strategy does not find.       *)
C9_Witness ==
    /\ AfterFrame
    /\ merge_algorithm = BS_ALGORITHM_FULL_SEARCH
    /\ sconf.block_switching = 2 /\ ~ sconf.joint_stereo
    /\ bs_info[0] = 0
    /\ bs_merge_bottomup(FullTree(2), 0, bs_sizes[0], bs_sizes[0], FALSE).bs # 0

(* C10: every word bs_info holds during a frame (left by gen_block_sizes,  *)
(* by every merge, by block_partitioning) is a tree of depth at most D.    *)
C10_BsInfoIsTree ==
    AfterFrame =>
        \A w \in bs_log \cup { bs_info[c] : c \in Channels } :
            IsTree(w, sconf.block_switching)

(* A node below the root is merged first and the root after it.            *)
C10_Witness ==
    /\ AfterFrame
    /\ sconf.block_switching = 2
    /\ (Pow2(30) + Pow2(29)) \in bs_log
    /\ bs_info[0] = 0

(* The pairs that end the frame with a common tree.                        *)
JointPairs == { c \in Channels : PairLeader(c) /\ c + 1 \in Channels }

BsInfoWritten ==
    write_frame_bs_info(0, avctx.channels, sconf.block_switching, independent_bs)

WordsOf(c) == Cardinality({ i \in DOMAIN BsInfoWritten : BsInfoWritten[i] = c })

LaneBefore(c) == { i \in DOMAIN raw_samples[c] : i < 0 }

C13_ShiftLsbsAtMost15 ==
    cur_block.searched => cur_block.shift_lsbs \in 0 .. 15

(* The signal the block is coded from: the difference signal for a block   *)
(* with js_block, the samples of the channel otherwise.                    *)
CodedSignal == IF cur_block.js_block # 0 THEN cur_block.dif ELSE cur_block.smp

(* Every sample of the signal the block is coded from has one value.       *)
CodedSignalIsFlat ==
    \A j \in 0 .. cur_block.length - 1 : CodedSignal[j] = CodedSignal[0]

(* The block has not been given a predictor or entropy parameters.         *)
NoSearchResult ==
    /\ cur_block.opt_order = 0
    /\ cur_block.shift_lsbs = 0
    /\ cur_block.ent_info = [sub_blocks |-> 1, rice_param |-> << 0 >>, bgmc_param |-> << 0 >>]
    /\ \A j \in 0 .. cur_block.length - 1 : cur_block.res[j] = 9

(* C14 as stated: when every sample of the channel's block has the same    *)
(* value v, the block is constant (block_type = 0) with constant_value =   *)
(* v, and no predictor or entropy search result is used for it.            *)
C14_EqualSamplesGiveConstantBlock ==
    (cur_block.searched /\ \A j \in 0 .. cur_block.length - 1 : cur_block.smp[j] = cur_block.smp[0])
        => /\ cur_block.constant = 1
           /\ cur_block.constant_value = cur_block.smp[0]
           /\ NoSearchResult

(* C14 as the code has it: in a stage with check_constant, the block is    *)
(* constant exactly when every sample of the signal it is coded from (the  *)
(* channel, or the difference for a js block) has the same value v; then   *)
(* constant_value = v, no predictor or entropy search result is kept, and  *)
(* write_block puts block_type = 0 and, for v # 0, the value v.  In a      *)
(* stage without check_constant no block is constant.                      *)
C14_EqualSignalGivesConstantBlockWhenChecked ==
    cur_block.searched =>
        /\ cur_block.constant = 1
             <=> (cur_stage.check_constant # 0 /\ CodedSignalIsFlat)
        /\ cur_block.constant = 1 =>
             /\ cur_block.constant_value = CodedSignal[0]
             /\ NoSearchResult
             /\ pb # << >> =>
                  /\ pb[1] = << 1, 0 >>
                  /\ pb[3] = << 1, cur_block.js_block >>
                  /\ CodedSignal[0] # 0 =>
                       pb[5] = << cfg.bits_per_raw_sample, CodedSignal[0] >>

(* A block of three equal samples 32767 of a 16-bit channel, searched in   *)
(* the final stage of level 1 and written as a constant block.             *)
C14_Witness ==
    /\ cur_block.searched
    /\ cur_stage.check_constant = 1
    /\ cur_block.js_block = 0
    /\ cur_block.length = 3
    /\ \A j \in 0 .. 2 : cur_block.smp[j] = 32767
    /\ cur_block.constant = 1
    /\ cur_block.constant_value = 32767
    /\ pb = << << 1, 0 >>, << 1, 1 >>, << 1, 0 >>, << 5, 0 >>, << 16, 32767 >> >>

(* C15: after find_block_params of a block that is not constant, whatever  *)
(* the stage's parameter search, the parameter s[i] of every sub-block is  *)
(* at most max_rice_param (31 when resolution > 1, 15 otherwise).          *)
C15_RiceParamAtMostMax ==
    (cur_block.searched /\ cur_block.constant = 0) =>
        /\ cfg.max_rice_param = IF cfg.resolution > 1 THEN 31 ELSE 15
        /\ \A sb \in 1 .. cur_block.ent_info.sub_blocks :
               cur_block.ent_info.rice_param[sb] \in 0 .. cfg.max_rice_param

(* C20: in Rice mode the s[0] field write_block puts for a block that is   *)
(* not constant is 5 bits wide exactly when resolution > 1 (when           *)
(* max_rice_param is 31) and 4 bits wide otherwise, and holds s[0].        *)
C20_RiceFieldWidthFollowsResolution ==
    (pb # << >> /\ cur_block.constant = 0 /\ cfg.bgmc = 0) =>
        /\ pb[RiceFieldIndex(cfg)][1] = IF cfg.resolution > 1 THEN 5 ELSE 4
        /\ pb[RiceFieldIndex(cfg)][2] = cur_block.ent_info.rice_param[1]
        /\ (cfg.resolution > 1) <=> (cfg.max_rice_param = 31)
        /\ cur_block.ent_info.rice_param[1] < Pow2(pb[RiceFieldIndex(cfg)][1])

(* The signal the predictor runs on: the coded signal after the shift of   *)
(* test_zero_lsb.                                                          *)
PredictedSignal == test_zero_lsb(cur_stage, cur_block, CodedSignal).cur_ptr

(* The residual at pos of the 1st-order predictor with the coefficient     *)
(* coef: the sample itself at the start of a random access block.          *)
FirstOrderResidual(coef, pos) ==
    IF cur_block.ra_block # 0 /\ pos = 0
    THEN PredictedSignal[0]
    ELSE PredictedSignal[pos] + MulRound20(coef, PredictedSignal[pos - 1])

(* C16: when the conversion of the coefficients of a block left the 32-bit *)
(* range, find_block_params ends with opt_order = 1 and the coefficient    *)
(* quantised from PARCOR[0] = -0.9, whether or not the stage adapts the    *)
(* order, and the residuals are those of that 1st-order predictor.         *)
C16_OverflowFallsBackToFirstOrder ==
    (cur_block.searched /\ cur_block.overflow) =>
        /\ cur_block.opt_order = 1
        /\ cur_block.r_parcor_coeff[0] = ReconstructedParcor(0, 0 - 36, 0 - 29519)
        /\ \A pos \in 0 .. cur_block.length - 1 :
               cur_block.res[pos] = FirstOrderResidual(cur_block.r_parcor_coeff[0], pos)

(* The direct-form coefficients of the predictor of order n made from the  *)
(* first n coefficients of the block.                                      *)
LpcOfOrder(n) ==
    ConvertAll([ret |-> 0, par |-> cur_block.r_parcor_coeff,
                lpc |-> [m \in DOMAIN cur_block.r_parcor_coeff |-> 0]], 0, n).lpc

(* The order the residual at pos of a random access block is to be         *)
(* computed with: pos below min(opt_order, length), opt_order from there.  *)
ProgressiveOrder(pos) ==
    IF pos < FFMIN(cur_block.opt_order, cur_block.length) THEN pos ELSE cur_block.opt_order

(* C17: in a random access block with prediction order r, residual 0 is    *)
(* the first sample, residual i for 1 <= i < min(r, length) is that of the *)
(* predictor of order i, and the residuals from min(r, length) on are      *)
(* those of the predictor of order r; no residual reads a sample before    *)
(* the block.                                                              *)
C17_RandomAccessResidualsAreProgressive ==
    (/\ cur_block.searched
     /\ cur_block.ra_block # 0
     /\ cur_block.constant = 0
     /\ cur_block.opt_order > 0
     /\ ~cur_block.overflow) =>
        \A pos \in 0 .. cur_block.length - 1 :
            /\ ProgressiveOrder(pos) <= pos
            /\ cur_block.res[pos] =
                   LPC_PREDICT_SAMPLE(LpcOfOrder(ProgressiveOrder(pos)), PredictedSignal,
                                      pos, ProgressiveOrder(pos))

(* C18: after a close on a seekable sink in which the header size computed *)
(* for the rewrite differs from that of the first write, the file holds    *)
(* the bytes it held before the close, the first header among them, and    *)
(* the warning has been logged.                                            *)
C18_SizeMismatchKeepsFirstHeader ==
    (/\ mux.phase = "closed"
     /\ mux.ret = 0
     /\ sink.seekable
     /\ priv_data.header_size # mux.first_header_size) =>
        /\ sink.buf = mux.before_close
        /\ SubSeq(sink.buf, 1, mux.first_header_size) = mux.first_header
        /\ mux.log = {MismatchWarning}

(* The offset in bytes of the ALSSpecificConfig in the extradata the file  *)
(* was opened with.                                                        *)
OriginalConfigOffset ==
    (avpriv_mpeg4audio_get_config(mux.original_extradata) + 7) \div 8

(* The config of the most recent side data of a packet, that of the        *)
(* original extradata if no packet had any.                                *)
LatestConfig ==
    LET from == IF mux.last_side_data # << >> THEN mux.last_side_data
                ELSE mux.original_extradata
    IN  SubSeq(from, OriginalConfigOffset + 1, Len(from))

(* C19: after a close on a seekable sink the file is the config of the     *)
(* most recent side data (of the original extradata if there was none)     *)
(* followed by the payloads of the packets in the order of their arrival,  *)
(* and the write position is the end of the file as before the close;      *)
(* after a close on a sink that is not seekable the file is as before.     *)
C19_CloseRewritesHeaderOnly ==
    mux.phase = "closed" =>
        IF sink.seekable
        THEN /\ mux.ret = 0
             /\ sink.buf = LatestConfig \o mux.payload
             /\ sink.pos = Len(mux.before_close)
             /\ Len(sink.buf) = Len(mux.before_close)
        ELSE /\ sink.buf = mux.before_close
             /\ sink.buf = mux.first_header \o mux.payload
             /\ sink.pos = Len(mux.before_close)

(***************************************************************************)
(* SpecParse: ff_als_parse_bs_info and set_blocks on one bs_info word of a *)
(* full-length frame.                                                      *)
(***************************************************************************)
MaxParseDepth == 4

(* The words explored: every tree of depth up to MaxParseDepth and the     *)
(* full tree of depth 5 with its 32 leaves.                                *)
ParseWords == TreesAt(0, MaxParseDepth) \cup {FullTree(5)}

InitParse ==
    /\ NoFrames
    /\ NoBlockSearch
    /\ NoMuxer
    /\ fn_ret = << >>
    /\ \E bs \in ParseWords, frame_length \in {32, 64} :
        fn_call = [name |-> "set_blocks", bs_info |-> bs, frame_length |-> frame_length]

SetBlocks ==
    /\ fn_ret = << >>
    /\ fn_call.name = "set_blocks"
    /\ fn_ret' = [div_blocks |-> ff_als_parse_bs_info(fn_call.bs_info, 0, 0),
                  layout |-> set_blocks([b \in 0 .. ALS_MAX_BLOCKS - 1 |-> EmptyBlock],
                                        fn_call.bs_info, fn_call.frame_length,
                                        fn_call.frame_length)]
    /\ UNCHANGED << encvars, blockvars, muxvars, fn_call >>

NextParse == SetBlocks

SpecParse == InitParse /\ [][NextParse]_vars

(* Node n is a leaf of the tree of the word given to set_blocks: the bits  *)
(* of all its ancestors are set and its own is not (the nodes from 31 on   *)
(* have no bit).                                                           *)
RECURSIVE AncestorsSplit(_)
AncestorsSplit(n) ==
    n = 0 \/ (NodeBit(fn_call.bs_info, (n - 1) \div 2) /\ AncestorsSplit((n - 1) \div 2))

TreeLeaves == { n \in 0 .. 62 : AncestorsSplit(n) /\ ~NodeBit(fn_call.bs_info, n) }

(* Where the samples of node n start, in units of the shortest block.      *)
LeafStart(n) == (n - (Pow2(Level(n)) - 1)) * Pow2(5 - Level(n))

(* The k-th leaf from the left.                                            *)
LeafAt(k) ==
    CHOOSE n \in TreeLeaves : Cardinality({ x \in TreeLeaves : LeafStart(x) < LeafStart(n) }) = k - 1

(* C21: for a bs_info word that is a tree, ff_als_parse_bs_info reports    *)
(* the leaves from left to right (pre-order), each with div equal to its   *)
(* level, 1 to 32 in all, and set_blocks of a full-length frame gives the  *)
(* channel exactly these blocks in this order, of frame_length >> div      *)
(* samples each.                                                           *)
C21_ParseYieldsLeavesInPreOrder ==
    (fn_call # << >> /\ fn_call.name = "set_blocks" /\ fn_ret # << >>) =>
        /\ IsTree(fn_call.bs_info, 5)
        /\ Len(fn_ret.div_blocks) = Cardinality(TreeLeaves)
        /\ Len(fn_ret.div_blocks) \in 1 .. 32
        /\ \A k \in 1 .. Len(fn_ret.div_blocks) : fn_ret.div_blocks[k] = Level(LeafAt(k))
        /\ fn_ret.layout.num_blocks = Len(fn_ret.div_blocks)
        /\ \A k \in 1 .. Len(fn_ret.div_blocks) :
               /\ fn_ret.layout.blocks[k - 1].div_block = Level(LeafAt(k))
               /\ fn_ret.layout.blocks[k - 1].length
                      = fn_call.frame_length \div Pow2(Level(LeafAt(k)))

(* The tree that splits the frame and then its right half only: the leaves *)
(* 1, 5, 6 with the lengths 16, 8, 8.                                      *)
C21_Witness ==
    /\ fn_call # << >> /\ fn_call.name = "set_blocks" /\ fn_ret # << >>
    /\ fn_call.frame_length = 32
    /\ TreeLeaves = {1, 5, 6}
    /\ fn_ret.div_blocks = << 1, 2, 2 >>
    /\ fn_ret.layout.blocks[0].length = 16
    /\ fn_ret.layout.blocks[2].length = 8

(***************************************************************************)
(* SpecChoice: block_partitioning of one frame of a joint-stereo pair with *)
(* bit counts far enough apart for the independent and the joint partition *)
(* to differ by more than the additional bs_info word.                     *)
(***************************************************************************)
MaxChoiceDepth == 1
MidCost == 3
WideCost == 12

ChoiceCosts == {1, MidCost, WideCost}

ChoiceTables ==
    [in_bs : [Channels -> [Nodes -> ChoiceCosts]],
     in_js : [Pairs -> [Nodes -> {1, WideCost}]]]

InitChoice ==
    /\ NoBlockSearch
    /\ NoMuxer
    /\ NoFunction
    /\ \E preset \in AllPresets, channels \in 1 .. MaxChannels,
          frame_size \in 2 .. MaxFrameLength :
        /\ preset.joint_stereo
        /\ preset.block_switching <= MaxChoiceDepth
        /\ als_encode_init(preset, channels, frame_size, 0, 0)

PartitionPairFrame ==
    /\ n_frames < 1
    /\ UNCHANGED << blockvars, muxvars, fnvars >>
    /\ \E nb_samples \in 1 .. sconf.frame_length :
       \E t \in ChoiceTables :
            als_encode_frame([nb_samples |-> nb_samples, pts |-> 0,
                              data |-> ZeroData(nb_samples)],
                             t.in_bs, t.in_js, 1, "forward")

NextChoice == PartitionPairFrame

SpecChoice == InitChoice /\ [][NextChoice]_vars

(* The bit counts block_partitioning compares for the pair (c, c + 1), and *)
(* the bs_info words the independent merges leave in the two channels.     *)
PairBits(C, e, c) ==
    Bind(get_partition(C, e, c, c), LAMBDA g1 :
    Bind(get_partition(g1.ctx, e, c + 1, c + 1), LAMBDA g2 :
    Bind(set_js_sizes([g2.ctx EXCEPT !.bs_info = [g2.ctx.bs_info EXCEPT ![c] = C.bs_info[c]]],
                      e, c, 0), LAMBDA C4 :
    Bind(get_partition(C4, e, c, c + 1), LAMBDA g3 :
         [bits_ind   |-> g1.bit_count + g2.bit_count,
          bits_joint |-> g3.bit_count,
          bs_info_c1 |-> g2.ctx.bs_info[c],
          bs_info_c2 |-> g2.ctx.bs_info[c + 1]]))))

PairBitsOfFrame(c) ==
    PairBits(select_difference_coding_mode(Ctx(blocks), Env(call.nb_samples),
                                           call.in_bs, call.in_js),
             Env(call.nb_samples), c)

(* Channel c has the word bs and the blocks that word gives the frame.     *)
HasOwnLayout(c, bs) ==
    /\ bs_info[c] = bs
    /\ \E sb \in {set_blocks(blocks[c], bs, sconf.frame_length, call.nb_samples)} :
          /\ num_blocks[c] = sb.num_blocks
          /\ \A b \in 0 .. num_blocks[c] - 1 :
                /\ blocks[c][b].length = sb.blocks[b].length
                /\ blocks[c][b].div_block = sb.blocks[b].div_block

CodedIndependently(c, r) ==
    /\ independent_bs[c] = 1 /\ independent_bs[c + 1] = 1
    /\ \A b \in 0 .. num_blocks[c] - 1 : blocks[c][b].js_block = 0
    /\ \A b \in 0 .. num_blocks[c + 1] - 1 : blocks[c + 1][b].js_block = 0
    /\ HasOwnLayout(c, r.bs_info_c1)
    /\ HasOwnLayout(c + 1, r.bs_info_c2)

(* C22: with joint_stereo on, block_partitioning codes a pair              *)
(* independently exactly when bits_ind plus the bs_info word of            *)
(* 1 << max(3, block_switching) bits is below bits_joint; then both        *)
(* channels have independent_bs = 1, no block with js_block, and the       *)
(* bs_info and blocks of their own independent merge; otherwise            *)
(* independent_bs stays 0 for both.                                        *)
C22_IndependentExactlyWhenCheaper ==
    (AfterFrame /\ sconf.joint_stereo) =>
        \A c \in { x \in Channels : x % 2 = 0 /\ x + 1 \in Channels } :
            \E r \in {PairBitsOfFrame(c)} :
                IF r.bits_ind + Pow2(FFMAX(3, sconf.block_switching)) < r.bits_joint
                THEN CodedIndependently(c, r)
                ELSE independent_bs[c] = 0 /\ independent_bs[c + 1] = 0

(* A pair whose first channel is cheapest unsplit and whose second is      *)
(* cheapest split, by more than 8 bits: coded independently with different *)
(* block counts.                                                           *)
C22_Witness ==
    /\ AfterFrame /\ sconf.joint_stereo /\ avctx.channels = 2
    /\ sconf.block_switching = 1
    /\ call.nb_samples = sconf.frame_length
    /\ independent_bs[0] = 1 /\ independent_bs[1] = 1
    /\ num_blocks[0] = 1 /\ num_blocks[1] = 2
    /\ bs_info[0] = 0 /\ bs_info[1] = FullTree(1)
    /\ PairBitsOfFrame(0).bits_ind + 8 < PairBitsOfFrame(0).bits_joint

(* A pair at the threshold, bits_ind + 8 = bits_joint, stays joint.        *)
C22_WitnessThreshold ==
    /\ AfterFrame /\ sconf.joint_stereo /\ avctx.channels = 2
    /\ PairBitsOfFrame(0).bits_ind + 8 = PairBitsOfFrame(0).bits_joint
    /\ independent_bs[0] = 0 /\ independent_bs[1] = 0

(***************************************************************************)
(* SpecSoftFloat: av_int2sf_ieee754 on one integer and exponent.           *)
(* SoftFloat_IEEE754 is the record sign, mant, exp; mant is a uint64_t,    *)
(* and for |n| <= MaxInt the value n << MANT_BITS stays below 2^31.        *)
(***************************************************************************)
MaxInt == 100
MaxExp == 3

MANT_BITS == 23

RECURSIVE av_normalize_sf_ieee754(_)
av_normalize_sf_ieee754(sf) ==
    IF sf.mant >= Pow2(24)
    THEN av_normalize_sf_ieee754([sf EXCEPT !.exp = @ + 1, !.mant = @ \div 2])
    ELSE [sf EXCEPT !.mant = @ % Pow2(23)]

av_int2sf_ieee754(n, e) ==
    LET sign == IF n < 0 THEN 1 ELSE 0
        m    == IF n < 0 THEN n * (-1) ELSE n
    IN  av_normalize_sf_ieee754([sign |-> sign, mant |-> m * Pow2(MANT_BITS), exp |-> 0 + e])

InitSoftFloat ==
    /\ NoFrames
    /\ NoBlockSearch
    /\ NoMuxer
    /\ fn_ret = << >>
    /\ \E n \in (0 - MaxInt) .. MaxInt, e \in (0 - MaxExp) .. MaxExp :
        fn_call = [name |-> "av_int2sf_ieee754", n |-> n, e |-> e]

Int2Sf ==
    /\ fn_ret = << >>
    /\ fn_call.name = "av_int2sf_ieee754"
    /\ fn_ret' = av_int2sf_ieee754(fn_call.n, fn_call.e)
    /\ UNCHANGED << encvars, blockvars, muxvars, fn_call >>

NextSoftFloat == Int2Sf

SpecSoftFloat == InitSoftFloat /\ [][NextSoftFloat]_vars

Int2SfReturned == fn_call # << >> /\ fn_call.name = "av_int2sf_ieee754" /\ fn_ret # << >>

(* The soft-float sf has the value n * 2^e:                                *)
(* (-1)^sign * (1 + mant / 2^23) * 2^exp = n * 2^e, both sides multiplied  *)
(* by 2^23 / 2^e.  A normalized mant is below 2^23.                        *)
HasValue(sf, n, e) ==
    /\ sf.mant \in 0 .. Pow2(23) - 1
    /\ sf.exp >= e
    /\ (Pow2(23) + sf.mant) * Pow2(sf.exp - e) * (IF sf.sign = 1 THEN -1 ELSE 1) = n * Pow2(23)

(* C23: av_int2sf_ieee754(n, e) is a normalized soft-float whose value     *)
(* (-1)^sign * (1 + mant / 2^23) * 2^exp is n * 2^e, for every n with      *)
(* |n| < 2^24, n = 0 and negative n included, and every e.                 *)
C23_Int2SfHasValue ==
    Int2SfReturned => HasValue(fn_ret, fn_call.n, fn_call.e)

(* The same for every n other than 0.                                      *)
C23_Int2SfHasValueForNonZero ==
    (Int2SfReturned /\ fn_call.n # 0) => HasValue(fn_ret, fn_call.n, fn_call.e)

(* n = 0 gives sign 0, mant 0 and exp e: the soft-float of 2^e.            *)
C23_ZeroGivesPowerOfTwo ==
    (Int2SfReturned /\ fn_call.n = 0) =>
        /\ fn_ret = [sign |-> 0, mant |-> 0, exp |-> fn_call.e]
        /\ fn_ret = av_int2sf_ieee754(1, fn_call.e)

(***************************************************************************)
(* SpecEntropy: the search for the entropy sub-block partition of a block  *)
(* of 12 or more residuals, and the residual passes of write_block.        *)
(* find_block_bgmc_params_exact is called for the parameter algorithm      *)
(* EC_PARAM_ALGORITHM_BGMC_EXACT only, which no stage preset and no        *)
(* override selects.  find_block_bgmc_params_est is followed with the      *)
(* sub-block algorithm EC_SUB_ALGORITHM_RICE_ESTIMATE, which the final     *)
(* stage has for the arithmetic coder at compression levels 0 and 1; with  *)
(* EC_SUB_ALGORITHM_BGMC_EXACT the counts come from the arithmetic coder.  *)
(***************************************************************************)
MaxResidual == 9
MaxQuarters == 6

(* "#define rice_encode_count(sum, n, k)".  The parameter k is the         *)
(* estimate for sum and n, which is 0 when sum <= n >> 1; the difference   *)
(* is then added to the unsigned count modulo 2^32.                        *)
rice_encode_count(sum, n, k) == (n * (k + 1)) + ((sum - (n \div 2)) \div Pow2(k))

(* The residuals res[off .. off + n - 1] as an array of their own.         *)
Shifted(res, off, n) == [j \in 0 .. n - 1 |-> res[off + j]]

block_ec_param_count(sb_part, max_rice_param, sub_blocks, s, sx, bgmc) ==
    LET k == IF bgmc = 1 THEN 2 ELSE 0
        S(sb) == IF bgmc = 1 THEN 16 * s[sb] + sx[sb] ELSE s[sb]
        diffs == [sb \in 1 .. sub_blocks - 1 |-> rice_count(S(sb + 1) - S(sb), k)]
    IN  (4 * Pow2(bgmc)) + (IF max_rice_param > 15 THEN 1 ELSE 0)
        + SumOver(diffs, 1, sub_blocks)
        + (IF sb_part # 0 THEN 1 ELSE 0) * Pow2(bgmc)

(* block_ec_count_exact without BGMC; s is the sequence s[0], s[1], ...    *)
block_ec_count_exact(c, sub_blocks, s) ==
    LET sb_length == c.length \div sub_blocks
        counts == [sb \in 0 .. sub_blocks - 1 |->
                     subblock_ec_count_exact(Shifted(c.res, sb * sb_length, sb_length),
                                             sb_length, s[sb + 1], c.max_rice_param,
                                             sb = 0 /\ c.ra_block # 0, c.order)]
    IN  SumOver(counts, 0, sub_blocks)
        + block_ec_param_count(c.sb_part, c.max_rice_param, sub_blocks, s, << >>, 0)

(* "if (!stage->sb_part || block->length & 0x3 || block->length < 16)"     *)
NoSubdivision(sb_part, length) == sb_part = 0 \/ length % 4 # 0 \/ length < 16

(* find_block_rice_params_est *)
RiceEstChoice(c, param, param4, sum, sum4, sb_max, sb_length) ==
    LET count1 == IF c.count_algorithm = "EXACT"
                  THEN block_ec_count_exact(c, 1, << param4 >>)
                  ELSE rice_encode_count(sum4, c.length, param4)
                       + 4 + (IF c.max_rice_param > 15 THEN 1 ELSE 0)
        est4 == [sb \in 0 .. sb_max - 1 |->
                   rice_encode_count(sum[sb], sb_length, param[sb + 1])
                   + (IF sb = 0 THEN 4 + (IF c.max_rice_param > 15 THEN 1 ELSE 0)
                      ELSE rice_count(param[sb + 1] - param[sb], 0))]
    IN  IF sb_max = 1 \/ \A sb \in 1 .. 4 : param[sb] = param[1]
        THEN [sub_blocks |-> 1, rice_param |-> << param4 >>, bgmc_param |-> << >>]
        ELSE IF count1 <= (IF c.count_algorithm = "EXACT"
                           THEN block_ec_count_exact(c, 4, param)
                           ELSE SumOver(est4, 0, sb_max))
        THEN [sub_blocks |-> 1, rice_param |-> << param4 >>, bgmc_param |-> << >>]
        ELSE [sub_blocks |-> 4, rice_param |-> param, bgmc_param |-> << >>]

RiceEstSums(c, sb_max, sb_length) ==
    LET mapped == [j \in 0 .. c.length - 1 |-> RiceMap(c.res[j])]
        sum == Table([sb \in 0 .. sb_max - 1 |->
                        SumOver(mapped, sb * sb_length, (sb + 1) * sb_length)])
        param == Table([sb \in 1 .. sb_max |->
                          estimate_rice_param(sum[sb - 1], sb_length, c.max_rice_param)])
    IN  Bind(SumOver(sum, 0, sb_max), LAMBDA sum4 :
             RiceEstChoice(c, param, estimate_rice_param(sum4, c.length, c.max_rice_param),
                           sum, sum4, sb_max, sb_length))

rice_params_est(c) ==
    IF NoSubdivision(c.sb_part, c.length)
    THEN RiceEstSums(c, 1, c.length)
    ELSE RiceEstSums(c, 4, c.length \div 4)

(* find_block_rice_params_exact: the search of one sub-block starts at the *)
(* best parameter of the sub-block before it.                              *)
RiceExactOfSubBlock(c, sb, sb_length, best_k) ==
    LET counts == Table([k \in 0 .. c.max_rice_param |->
                     subblock_ec_count_exact(Shifted(c.res, sb * sb_length, sb_length),
                                             sb_length, k, c.max_rice_param,
                                             sb = 0 /\ c.ra_block # 0, c.order)])
        k0 == FFMIN(best_k, c.max_rice_param - 1)
    IN  Bind(IF counts[k0 + 1] < counts[k0]
             THEN RiceSearch(counts, k0 + 2, 1, k0 + 1, counts[k0 + 1], c.max_rice_param)
             ELSE RiceSearch(counts, k0 - 1, -1, k0, counts[k0], c.max_rice_param),
             LAMBDA k : [param |-> k, count |-> counts[k]])

RECURSIVE RiceExactFrom(_, _, _, _, _)
RiceExactFrom(c, sb, sb_max, sb_length, best_k) ==
    IF sb >= sb_max THEN << >>
    ELSE Bind(RiceExactOfSubBlock(c, sb, sb_length, best_k), LAMBDA r :
              << r >> \o RiceExactFrom(c, sb + 1, sb_max, sb_length, r.param))

RiceExactChoice(c, found, sb_max) ==
    LET param == [sb \in 1 .. sb_max |-> found[sb].param]
        count == [sb \in 1 .. sb_max |-> found[sb].count]
    IN  IF sb_max = 1 \/ \A sb \in 1 .. 4 : param[sb] = param[1]
        THEN [sub_blocks |-> 1, rice_param |-> << param[1] >>, bgmc_param |-> << >>]
        ELSE Bind((param[1] + param[2] + param[3] + param[4]) \div 4, LAMBDA p0 :
             IF block_ec_count_exact(c, 1, << p0 >>)
                  <= SumOver(count, 1, 5)
                     + block_ec_param_count(c.sb_part, c.max_rice_param, 4, param, << >>, 0)
             THEN [sub_blocks |-> 1, rice_param |-> << p0 >>, bgmc_param |-> << >>]
             ELSE [sub_blocks |-> 4, rice_param |-> param, bgmc_param |-> << >>])

rice_params_exact(c) ==
    IF NoSubdivision(c.sb_part, c.length)
    THEN RiceExactChoice(c, RiceExactFrom(c, 0, 1, c.length, c.max_rice_param \div 3), 1)
    ELSE RiceExactChoice(c, RiceExactFrom(c, 0, 4, c.length \div 4,
                                          c.max_rice_param \div 3), 4)

(* find_block_bgmc_params_est: sum[p][sb], from the sub-blocks of the      *)
(* finest partition p_max upwards.                                         *)
RECURSIVE BgmcSum(_, _, _, _)
BgmcSum(c, p, sb, p_max) ==
    IF p = p_max
    THEN SumOver([j \in 0 .. c.length - 1 |-> abs(c.res[j])],
                 sb * (c.length \div Pow2(p)), (sb + 1) * (c.length \div Pow2(p)))
    ELSE BgmcSum(c, p + 1, 2 * sb, p_max) + BgmcSum(c, p + 1, 2 * sb + 1, p_max)

BgmcEstCount(c, sum, p) ==
    SumOver([sb \in 0 .. Pow2(p) - 1 |->
                rice_encode_count(sum[p][sb], c.length \div Pow2(p),
                                  estimate_rice_param(sum[p][sb], c.length \div Pow2(p),
                                                      c.max_rice_param))],
            0, Pow2(p))

(* "if (count <= count_best)", for p from p_max down to 0; the partition   *)
(* p_max is always taken first, count_best being UINT_MAX.                 *)
RECURSIVE BestPartition(_, _, _, _)
BestPartition(counts, p, p_best, count_best) ==
    IF p < 0 THEN p_best
    ELSE IF counts[p] <= count_best
    THEN BestPartition(counts, p - 1, p, counts[p])
    ELSE BestPartition(counts, p - 1, p_best, count_best)

BgmcEstChoice(c, sum, p_best) ==
    [sub_blocks |-> Pow2(p_best),
     rice_param |-> [sb \in 1 .. Pow2(p_best) |->
                       estimate_bgmc_params(sum[p_best][sb - 1],
                                            c.length \div Pow2(p_best)).s],
     bgmc_param |-> [sb \in 1 .. Pow2(p_best) |->
                       estimate_bgmc_params(sum[p_best][sb - 1],
                                            c.length \div Pow2(p_best)).sx]]

BgmcEstSearch(c, p_max) ==
    Bind(Table([p \in 0 .. p_max |->
                  Table([sb \in 0 .. Pow2(p) - 1 |-> BgmcSum(c, p, sb, p_max)])]),
         LAMBDA sum :
    Bind(Table([p \in 0 .. p_max |-> BgmcEstCount(c, sum, p)]), LAMBDA counts :
         BgmcEstChoice(c, sum, BestPartition(counts, p_max - 1, p_max, counts[p_max]))))

bgmc_params_est(c) ==
    IF NoSubdivision(c.sb_part, c.length) THEN BgmcEstSearch(c, 0) ELSE BgmcEstSearch(c, 3)

(* find_block_entropy_params on a block of any length.                     *)
entropy_params(c) ==
    IF c.param_algorithm = "BGMC_ESTIMATE" THEN bgmc_params_est(c)
    ELSE IF c.param_algorithm = "RICE_ESTIMATE" THEN rice_params_est(c)
    ELSE rice_params_exact(c)

(* write_block, "write residuals": the positions of block->cur_ptr that   *)
(* the pass over the sub-blocks codes, in the order it codes them.  Each   *)
(* of the ent->sub_blocks sub-blocks takes sb_length = block->length /     *)
(* ent->sub_blocks residuals from the advancing res_ptr.                   *)
ResidualsWritten(length, sub_blocks) ==
    [i \in 1 .. sub_blocks * (length \div sub_blocks) |-> i - 1]

EntropyLengths == { 4 * q : q \in 3 .. MaxQuarters }

(* Residuals of one magnitude in each quarter of the block, the odd        *)
(* positions negative.                                                     *)
QuarterResiduals(length, q) ==
    [j \in 0 .. length - 1 |->
        IF j % 2 = 0 THEN q[(4 * j) \div length] ELSE 0 - q[(4 * j) \div length]]

(* The stage options of the compression levels 0 and 1 with either coder   *)
(* type; the stages of level 2 use EC_SUB_ALGORITHM_BGMC_EXACT.            *)
EntropyStages ==
    { StageOptions(get_specific_config(level, "S16", 0, -1, ac), which) :
        level \in {0, 1}, ac \in BOOLEAN, which \in Stages }

InitEntropy ==
    /\ NoFrames
    /\ NoBlockSearch
    /\ NoMuxer
    /\ fn_ret = << >>
    /\ \E length \in EntropyLengths, q \in [0 .. 3 -> {0, 1, MaxResidual}],
          st \in EntropyStages, ra_block \in {0, 1} :
        fn_call = [name |-> "find_block_entropy_params",
                   length |-> length, res |-> QuarterResiduals(length, q),
                   param_algorithm |-> st.param_algorithm,
                   count_algorithm |-> st.count_algorithm,
                   sb_part |-> st.sb_part, max_rice_param |-> 15,
                   ra_block |-> ra_block, order |-> 2 * ra_block]

FindEntropyParams ==
    /\ fn_ret = << >>
    /\ fn_call.name = "find_block_entropy_params"
    /\ \E ent \in {entropy_params(fn_call)} :
          fn_ret' = [ent |-> ent,
                     written |-> ResidualsWritten(fn_call.length, ent.sub_blocks)]
    /\ UNCHANGED << encvars, blockvars, muxvars, fn_call >>

NextEntropy == FindEntropyParams

SpecEntropy == InitEntropy /\ [][NextEntropy]_vars

EntropySearched ==
    fn_call # << >> /\ fn_call.name = "find_block_entropy_params" /\ fn_ret # << >>

(* C24: whatever the block length and the search path, the chosen          *)
(* sub_blocks is 1, 2, 4 or 8 and divides the block length, so that        *)
(* sub_blocks * (length / sub_blocks) = length and write_block codes every *)
(* residual of the block in exactly one sub-block.                         *)
C24_SubBlocksDivideLength ==
    EntropySearched =>
        /\ fn_ret.ent.sub_blocks \in {1, 2, 4, 8}
        /\ fn_call.length % fn_ret.ent.sub_blocks = 0
        /\ fn_ret.ent.sub_blocks * (fn_call.length \div fn_ret.ent.sub_blocks)
               = fn_call.length
        /\ \A j \in 0 .. fn_call.length - 1 :
              Cardinality({ i \in DOMAIN fn_ret.written : fn_ret.written[i] = j }) = 1

(* The Rice searches choose 1 or 4 sub-blocks, and 4 only for a length     *)
(* that is a multiple of 4.                                                *)
C24_RiceSubBlocksDivideLength ==
    (EntropySearched /\ fn_call.param_algorithm # "BGMC_ESTIMATE") =>
        /\ fn_ret.ent.sub_blocks \in {1, 4}
        /\ fn_call.length % fn_ret.ent.sub_blocks = 0
        /\ Len(fn_ret.written) = fn_call.length

(* A block of 20 residuals that the BGMC estimate splits into 8 sub-blocks *)
(* of 2: the last 4 residuals are in no sub-block.                         *)
C24_EightSubBlocksOfTwenty ==
    /\ EntropySearched
    /\ fn_call.length = 20
    /\ fn_call.res[0] = 1 /\ fn_call.res[19] = 0 - MaxResidual
    /\ fn_ret.ent.sub_blocks = 8
    /\ Len(fn_ret.written) = 16

(* Four Rice sub-blocks are chosen for some block.                         *)
C24_FourRiceSubBlocks ==
    /\ EntropySearched
    /\ fn_call.param_algorithm = "RICE_EXACT"
    /\ fn_ret.ent.sub_blocks = 4

(* C25: for every ra_distance, after a call of als_encode_frame with a     *)
(* frame that write_frame has written, the packet reported has the byte    *)
(* count of write_frame as its size and the pts and duration of that       *)
(* frame.                                                                  *)
C25_PacketCarriesItsFrame ==
    (AfterFrame /\ call.written >= 0) =>
        /\ got_packet_ptr = 1
        /\ avpkt.size = call.written
        /\ avpkt.pts = call.pts
        /\ avpkt.duration = call.nb_samples

(* The same for the streams with ra_distance below 2.                      *)
C25_PacketCarriesItsFrameWithoutGop ==
    (AfterFrame /\ call.written >= 0 /\ sconf.ra_distance < 2) =>
        /\ got_packet_ptr = 1
        /\ avpkt.size = call.written
        /\ avpkt.pts = call.pts
        /\ avpkt.duration = call.nb_samples

(* With ra_distance 2 the second full-length frame is reported in a packet *)
(* without pts and with the size of the output buffer.                     *)
C25_PacketWithoutPts ==
    /\ AfterFrame /\ call.written >= 0
    /\ sconf.ra_distance = 2 /\ n_frames = 2
    /\ call.nb_samples = sconf.frame_length
    /\ got_packet_ptr = 1
    /\ avpkt.pts = AV_NOPTS_VALUE
    /\ avpkt.size = sconf.frame_length * avctx.channels * 32

(* Channel c has no partner: it is the last of an odd number of channels.  *)
Unpaired(c) == c % 2 = 0 /\ c + 1 \notin Channels

(* C26: after block_partitioning, in every pair (c, c + 1) and at every    *)
(* block index at most one of the two channels has js_block = 1, and a     *)
(* channel with independent_bs = 1 or without a partner has js_block = 0   *)
(* in every block.  The final parameter search reads js_block and does not *)
(* write it.                                                               *)
C26_JsBlockOnlyInOneChannel ==
    AfterFrame =>
        \A c \in Channels : \A b \in 0 .. ALS_MAX_BLOCKS - 1 :
            /\ (c % 2 = 0 /\ c + 1 \in Channels) =>
                   ~(blocks[c][b].js_block = 1 /\ blocks[c + 1][b].js_block = 1)
            /\ (independent_bs[c] = 1 \/ Unpaired(c)) => blocks[c][b].js_block = 0

(* A joint pair whose first block is coded from the difference signal in   *)
(* the second channel and whose second block in the first channel.         *)
C26_Witness ==
    /\ AfterFrame /\ avctx.channels = 2
    /\ independent_bs[0] = 0
    /\ num_blocks[0] = 2
    /\ blocks[0][0].js_block = 0 /\ blocks[1][0].js_block = 1
    /\ blocks[0][1].js_block = 1 /\ blocks[1][1].js_block = 0

(* A pair coded independently although js_info had marked its blocks.      *)
C26_WitnessIndependent ==
    /\ AfterFrame /\ avctx.channels = 2
    /\ independent_bs[0] = 1 /\ independent_bs[1] = 1
    /\ \E n \in Nodes : call.in_js[0][n] < call.in_bs[0][n]

(***************************************************************************)
(* SpecLtp: check_ltp on one block.  The normalized autocorrelation of the *)
(* weighted signal (doubles) is given as an array with the value first at  *)
(* index start, the value 2 at one other index and 0 elsewhere.  The gains *)
(* of the Cholesky solver, the index map_to_index finds in                 *)
(* ff_als_ltp_gain_values, and the bit counts the entropy search returns   *)
(* for the residual and for the LTP residual are inputs; the entropy       *)
(* search is a function of the signal it is given.                         *)
(***************************************************************************)
MaxLtpLength == 2100
MaxLtpOrder == 5

LtpLengths == {4, 6, 8, 9, 300, 600, 1100, MaxLtpLength}

(* "256 << ((avctx->sample_rate >= 96000) + (avctx->sample_rate >= 192000))" *)
RateShift(sample_rate) ==
    (IF sample_rate >= 96000 THEN 1 ELSE 0) + (IF sample_rate >= 192000 THEN 1 ELSE 0)

(* find_best_autocorr: the loop "for (i = start + 1; i < lag_max; i++)"    *)
(* moves i_max to i whenever autoc[i] is positive and above the maximum so *)
(* far, which starts as autoc[start].  It ends at the first index that     *)
(* holds the largest of these values, or at start when there is none.      *)
find_best_autocorr(autoc, lag_max, start) ==
    LET above == { i \in start + 1 .. lag_max - 1 : autoc[i] > 0 /\ autoc[i] > autoc[start] }
        top   == { i \in above : \A x \in above : autoc[x] <= autoc[i] }
    IN  IF above = {} THEN start ELSE CHOOSE i \in top : \A x \in top : i <= x

(* Variant: the search runs over the whole block.                          *)
LagSearchEnd_block_end(lag, start, end) == end + 1

(* "lag_max = FFMIN(lag + start, end)"                                     *)
LagSearchEnd(lag, start, end) == FFMIN(lag + start, end)

(* The array compute_autocorr_norm fills, lag_max entries.                 *)
AutocArray(c, lag_max, start) ==
    [i \in 0 .. lag_max - 1 |->
        IF i = c.peak THEN 2 ELSE IF i = start THEN c.first ELSE 0]

(* find_block_ltp_params: the lag and the gains.                           *)
LtpSearch(c, start, end, lag) ==
    IF c.length <= start \/ lag <= 0
    THEN [lag |-> start, gain |-> << 0, 0, 0, 0, 0 >>]
    ELSE Bind(LagSearchEnd(lag, start, end), LAMBDA lag_max :
              [lag  |-> find_best_autocorr(AutocArray(c, lag_max, start), lag_max, start),
               gain |-> c.gain])

find_block_ltp_params(c) ==
    LET start == FFMAX(4, c.opt_order + 1)
        end   == FFMIN(ALS_MAX_LTP_LAG, c.length)
        lag   == 256 * Pow2(RateShift(c.sample_rate))
    IN  LtpSearch(c, start, end, IF lag + start > end - 3 THEN end - start - 3 ELSE lag)

(* gen_ltp_residuals: the LTP residuals of the samples of the block; gain  *)
(* is the sequence gain[0] .. gain[4].                                     *)
LtpResidual(cur, gain, lag, ltp_smp) ==
    LET center == ltp_smp - lag
        end    == center + 3
        begin  == FFMAX(0, center - 2)
        tab    == 5 - (end - begin)
        terms  == [base \in begin .. end - 1 |-> gain[tab + (base - begin) + 1] * cur[base]]
    IN  cur[ltp_smp] - ((64 + SumOver(terms, begin, end)) \div 128)

gen_ltp_residuals(cur, length, gain, lag) ==
    [j \in 0 .. length - 1 |->
        IF j < FFMAX(lag - 2, 0) THEN cur[j] ELSE LtpResidual(cur, gain, lag, j)]

(* "bit_count += (8 - (bit_count & 7)) & 7"                                *)
ByteAligned(bit_count) == bit_count + ((8 - (bit_count % 8)) % 8)

(* check_ltp after find_block_ltp_params: p is the lag and gains found.    *)
LtpDecision(c, p, ltp_signal) ==
    LET ltp_lag_length == 8 + RateShift(c.sample_rate)
        ec_ltp   == IF ltp_signal = c.cur THEN c.ec_plain ELSE c.ec_ltp
        bits_ltp == 1 + ltp_lag_length
                    + rice_count(p.gain[1], 1) + rice_count(p.gain[2], 2)
                    + ((c.gain_index \div 4) + 1 + 2)
                    + rice_count(p.gain[4], 2) + rice_count(p.gain[5], 1)
        bit_count     == ByteAligned(c.bits_misc + c.bits_parcor_coeff + c.ec_plain + 1)
        bit_count_ltp == ByteAligned(c.bits_misc + c.bits_adapt_order + c.bits_parcor_coeff
                                     + ec_ltp + bits_ltp)
    IN  [use_ltp |-> IF bit_count_ltp < bit_count THEN 1 ELSE 0,
         lag |-> p.lag, gain |-> p.gain,
         bit_count |-> IF bit_count_ltp < bit_count THEN bit_count_ltp ELSE bit_count]

check_ltp(c) ==
    Bind(find_block_ltp_params(c), LAMBDA p :
         LtpDecision(c, p, gen_ltp_residuals(c.cur, c.length, p.gain, p.lag)))

LtpSignals(length) ==
    { [j \in 0 .. length - 1 |-> v] : v \in {0, 8} }

InitLtp ==
    /\ NoFrames
    /\ NoBlockSearch
    /\ NoMuxer
    /\ fn_ret = << >>
    /\ \E length \in LtpLengths, opt_order \in {0, MaxLtpOrder},
          sample_rate \in {48000, 96000, 192000},
          peak \in {-1, 3, 4, 5, 6, 259, 260, 515, 516, 1027, 1028},
          first \in {-1, 3}, gain \in {<< 0, 0, 0, 0, 0 >>, << 8, 8, 16, 8, 8 >>},
          ec_plain \in {20, 60}, ec_ltp \in {0, 40}, gain_index \in {8} :
        \E cur \in LtpSignals(length) :
        fn_call = [name |-> "check_ltp", length |-> length, opt_order |-> opt_order,
                   sample_rate |-> sample_rate, peak |-> peak, first |-> first,
                   gain |-> gain, gain_index |-> gain_index, cur |-> cur,
                   ec_plain |-> ec_plain, ec_ltp |-> ec_ltp,
                   bits_misc |-> 2, bits_adapt_order |-> 0, bits_parcor_coeff |-> 0]

CheckLtp ==
    /\ fn_ret = << >>
    /\ fn_call.name = "check_ltp"
    /\ fn_ret' = check_ltp(fn_call)
    /\ UNCHANGED << encvars, blockvars, muxvars, fn_call >>

NextLtp == CheckLtp

SpecLtp == InitLtp /\ [][NextLtp]_vars

LtpChecked == fn_call # << >> /\ fn_call.name = "check_ltp" /\ fn_ret # << >>

(* The value write_block puts into the lag field.                          *)
LagField == fn_ret.lag - FFMAX(4, fn_call.opt_order + 1)

(* C27: when LTP is kept for a block (use_ltp = 1), the lag satisfies      *)
(* 0 <= lag - max(4, opt_order + 1) < 2^(8 + (sample_rate >= 96000) +      *)
(* (sample_rate >= 192000)) and lag < min(2048, block length): it fits the *)
(* field write_block writes it into.                                       *)
C27_LagFitsItsField ==
    (LtpChecked /\ fn_ret.use_ltp = 1) =>
        /\ 0 <= LagField
        /\ LagField < Pow2(8 + (IF fn_call.sample_rate >= 96000 THEN 1 ELSE 0)
                             + (IF fn_call.sample_rate >= 192000 THEN 1 ELSE 0))
        /\ fn_ret.lag < FFMIN(2048, fn_call.length)

(* LTP is kept with the largest lag of the 8-bit field, 4 + 255.           *)
C27_Witness ==
    /\ LtpChecked /\ fn_ret.use_ltp = 1
    /\ fn_call.sample_rate = 48000 /\ fn_call.opt_order = 0
    /\ fn_call.length = 300
    /\ fn_ret.lag = 259
    /\ LagField = 255

(* LTP is never kept for a block too short for a lag search.               *)
C27_ShortBlockDropsLtp ==
    (LtpChecked /\ fn_call.length <= FFMAX(4, fn_call.opt_order + 1) + 3) =>
        fn_ret.use_ltp = 0

(***************************************************************************)
(* SpecReset: reset_js_sizes(ctx, channel, 0) on the block descriptors of  *)
(* a channel pair.  block_buffer is the single array of                    *)
(* channels * ALS_MAX_BLOCKS descriptors als_encode_init allocates;        *)
(* blocks[c] points at its entry c * ALS_MAX_BLOCKS.  Of a descriptor only *)
(* js_block is kept.  The depth is the value of sconf->block_switching the *)
(* function reads.                                                         *)
(***************************************************************************)
MaxResetDepth == 5
MaxResetChannels == 4

(* "ctx->blocks[c] = ctx->blocks[c - 1] + 32"                              *)
BlocksBase(c) == c * ALS_MAX_BLOCKS

(* Variant: the loop addresses the descriptors by the block number b.      *)
ResetIndex_linear(nblocks, b) == b

(* "blocks = ctx->blocks[channel] + num_blocks - 1; blocks[b]"             *)
ResetIndex(nblocks, b) == nblocks - 1 + b

(* The descriptor indices one call writes, in the order of the loop, and   *)
(* those of the calls it makes for the stages below.                       *)
RECURSIVE ResetWrites(_, _)
ResetWrites(block_switching, stage) ==
    LET nblocks == IF block_switching # 0 THEN Pow2(stage) ELSE 1
        here == [k \in 1 .. nblocks |-> ResetIndex(nblocks, k - 1)]
    IN  IF block_switching # 0 /\ stage < block_switching
        THEN here \o ResetWrites(block_switching, stage + 1)
        ELSE here

(* The entries of block_buffer the writes of both channels address.        *)
ResetPositions(channel, writes) ==
    { BlocksBase(channel) + writes[k] : k \in DOMAIN writes }
        \cup { BlocksBase(channel + 1) + writes[k] : k \in DOMAIN writes }

(* "blocks[b].js_block = 0; buddys[b].js_block = 0": the buffer afterwards *)
(* and the addressed entries that lie behind its end.                      *)
ResetBlockBuffer(buffer, positions) ==
    [buffer  |-> Table([p \in DOMAIN buffer |-> IF p \in positions THEN 0 ELSE buffer[p]]),
     outside |-> { p \in positions : p \notin DOMAIN buffer }]

(* A store behind the end of the allocation is undefined: the heap of the  *)
(* process is damaged silently or the process is stopped.                  *)
ResetOutcomes(outside) ==
    IF outside = {} THEN {"done"} ELSE {"done", "heap damaged", "stopped"}

ResetBuffers(channels) ==
    { [p \in 0 .. channels * ALS_MAX_BLOCKS - 1 |-> v] : v \in {0, 1} }
        \cup { [p \in 0 .. channels * ALS_MAX_BLOCKS - 1 |-> p % 2] }

InitReset ==
    /\ NoFrames /\ NoBlockSearch /\ NoMuxer
    /\ \E block_switching \in 0 .. MaxResetDepth, channels \in 2 .. MaxResetChannels :
         \E channel \in { c \in 0 .. channels - 2 : c % 2 = 0 }, buffer \in ResetBuffers(channels) :
           fn_call = [name |-> "reset_js_sizes", block_switching |-> block_switching,
                      channels |-> channels, channel |-> channel, block_buffer |-> buffer]
    /\ fn_ret = << >>

ResetJsSizes ==
    /\ fn_call.name = "reset_js_sizes"
    /\ fn_ret = << >>
    /\ \E writes \in { ResetWrites(fn_call.block_switching, 0) } :
         \E r \in { ResetBlockBuffer(fn_call.block_buffer, ResetPositions(fn_call.channel, writes)) } :
           \E outcome \in ResetOutcomes(r.outside) :
             fn_ret' = [writes |-> writes, block_buffer |-> r.buffer,
                        outside |-> r.outside, outcome |-> outcome]
    /\ UNCHANGED << encvars, blockvars, muxvars, fn_call >>

NextReset == ResetJsSizes

SpecReset == InitReset /\ [][NextReset]_vars

ResetDone == fn_call.name = "reset_js_sizes" /\ fn_ret # << >>

C28_ResetStaysInChannelArrayToDepthFour ==
    (ResetDone /\ fn_call.block_switching <= 4) =>
        /\ \A k \in DOMAIN fn_ret.writes : fn_ret.writes[k] < ALS_MAX_BLOCKS
        /\ fn_ret.outside = {}

(* Depth 5 on the last channel pair: index 62 of the last channel is       *)
(* behind the end of block_buffer.                                         *)
C28_WriteBehindBlockBuffer ==
    /\ ResetDone
    /\ fn_call.block_switching = 5
    /\ fn_call.channel + 2 = fn_call.channels
    /\ BlocksBase(fn_call.channel + 1) + 62 \in fn_ret.outside
    /\ fn_ret.outcome = "heap damaged"

(* Depth 5 on the first of two pairs: the flags of the next channel are    *)
(* cleared.                                                                *)
C28_WriteIntoNextChannel ==
    /\ ResetDone
    /\ fn_call.block_switching = 5
    /\ fn_call.channels = 4 /\ fn_call.channel = 0
    /\ fn_call.block_buffer[BlocksBase(2) + 1] = 1
    /\ fn_ret.block_buffer[BlocksBase(2) + 1] = 0

(***************************************************************************)
(* SpecGolomb: set_sr_golomb_als on a bit writer.  pb is the sequence of   *)
(* the bits written so far and size_in_bits; put_bits_count(wr) is the     *)
(* length of the sequence.  Values are 32 bits wide: int arithmetic that   *)
(* leaves the range of int, a shift by a negative count and a put_bits     *)
(* call with a length outside 1..31 are undefined.                         *)
(***************************************************************************)
MaxGolombBits == 64

GolombValues ==
    {0, 1, -1, 2, -2, 3, 5, -6, 17, -40, 1000, Pow2(30) - 1, Pow2(30),
     0 - Pow2(30), (0 - Pow2(30)) - 1, INT32_MAX, INT32_MIN}

GolombWriters ==
    { [bits |-> b, size_in_bits |-> n] :
        b \in { << >>, << 1, 0, 1, 1, 0, 0, 1, 0 >> }, n \in {16, MaxGolombBits} }

(* put_bits(wr, n, value) for 1 <= n <= 31: the n low bits of value, the   *)
(* highest first.                                                          *)
put_bits(bits, n, value) ==
    bits \o [i \in 1 .. n |-> (value \div Pow2(n - i)) % 2]

(* "while (q > 31) { put_bits(wr, 31, 0x7FFFFFFF); q -= 31; }              *)
(*  put_bits(wr, q, ((1<<q)-1)^1);"  for q >= 1                            *)
RECURSIVE WriteUnary(_, _)
WriteUnary(bits, q) ==
    IF q > 31 THEN WriteUnary(put_bits(bits, 31, INT32_MAX), q - 31)
    ELSE put_bits(bits, q, 2 * (Pow2(q - 1) - 1))

(* "*q0 = v >> k" for v = 2 * half + low.                                  *)
GolombQuotient(half, low, k) ==
    IF k = 0 THEN UnsignedToInt(half, low, 0) ELSE ShiftRight(half, k - 1)

(* "q = *q0 + 1" and "put_bits_count(wr) + (q+k) > (wr)->size_in_bits"     *)
(* stay inside int, and the unary code has at least one bit.               *)
GolombDefined(wr, q0, k) ==
    /\ q0 >= 0
    /\ q0 < INT32_MAX
    /\ q0 + 1 <= (INT32_MAX - k) - Len(wr.bits)

(* What an execution that has left the defined behaviour can do: stop, or  *)
(* return 0 with the buffer as it was or filled to its end.                *)
GolombUndefined(wr) ==
    { [outcome |-> "stopped", ret |-> 0, bits |-> wr.bits, defined |-> FALSE] }
        \cup { [outcome |-> "returned", ret |-> 0, bits |-> b, defined |-> FALSE] :
                 b \in { wr.bits,
                         wr.bits \o [i \in 1 .. wr.size_in_bits - Len(wr.bits) |-> 1] } }

(* "(v0 >> 1) - ((q0-(!(v0&1))) << (k-1))"                                 *)
GolombRemainder(half, low, q0, k) == half - (q0 - (1 - low)) * Pow2(k - 1)

(* golomb_write_quotient and the remainder of set_sr_golomb_als.           *)
GolombWrite(wr, half, low, q0, k) ==
    IF Len(wr.bits) + (q0 + 1 + k) > wr.size_in_bits
    THEN [outcome |-> "returned", ret |-> -1, bits |-> wr.bits, defined |-> TRUE]
    ELSE [outcome |-> "returned", ret |-> 0, defined |-> TRUE,
          bits |-> IF k # 0
                   THEN put_bits(WriteUnary(wr.bits, q0 + 1), k,
                                 GolombRemainder(half, low, q0, k))
                   ELSE WriteUnary(wr.bits, q0 + 1)]

GolombOutcomes(wr, half, low, q0, k) ==
    IF GolombDefined(wr, q0, k) THEN { GolombWrite(wr, half, low, q0, k) }
    ELSE GolombUndefined(wr)

set_sr_golomb_als(wr, v, k) ==
    GolombOutcomes(wr, RiceHalf(v), RiceLow(v), GolombQuotient(RiceHalf(v), RiceLow(v), k), k)

InitGolomb ==
    /\ NoFrames /\ NoBlockSearch /\ NoMuxer
    /\ \E v \in GolombValues, k \in 0 .. 31, writer \in GolombWriters :
         fn_call = [name |-> "set_sr_golomb_als", pb |-> writer, v |-> v, k |-> k]
    /\ fn_ret = << >>

SetSrGolomb ==
    /\ fn_call.name = "set_sr_golomb_als"
    /\ fn_ret = << >>
    /\ \E r \in set_sr_golomb_als(fn_call.pb, fn_call.v, fn_call.k) :
         fn_ret' = r @@ [count |-> rice_count(fn_call.v, fn_call.k)]
    /\ UNCHANGED << encvars, blockvars, muxvars, fn_call >>

NextGolomb == SetSrGolomb

SpecGolomb == InitGolomb /\ [][NextGolomb]_vars

GolombReturned ==
    fn_call.name = "set_sr_golomb_als" /\ fn_ret # << >> /\ fn_ret.outcome = "returned"

GolombAppended == Len(fn_ret.bits) - Len(fn_call.pb.bits)

(* C29: for every 32-bit value v and every k in 0..31, set_sr_golomb_als   *)
(* appends rice_count(v, k) bits when it returns 0 and appends nothing     *)
(* when it returns -1.                                                     *)
C29_WriterAppendsRiceCount ==
    GolombReturned =>
        /\ fn_ret.ret = 0 => GolombAppended = rice_count(fn_call.v, fn_call.k)
        /\ fn_ret.ret = -1 => fn_ret.bits = fn_call.pb.bits

(* The same where the arithmetic of the writer stays inside int; the bits  *)
(* written before are kept.                                                *)
C29_WriterAppendsRiceCountWhereDefined ==
    (GolombReturned /\ fn_ret.defined) =>
        /\ fn_ret.ret = 0 => /\ GolombAppended = fn_ret.count
                             /\ SubSeq(fn_ret.bits, 1, Len(fn_call.pb.bits)) = fn_call.pb.bits
        /\ fn_ret.ret = -1 => fn_ret.bits = fn_call.pb.bits

(* A code of 2 unary bits and 3 remainder bits is written after 8 bits.    *)
C29_FiveBitsAppended ==
    /\ GolombReturned /\ fn_ret.defined /\ fn_ret.ret = 0
    /\ fn_call.v = -6 /\ fn_call.k = 3
    /\ Len(fn_call.pb.bits) = 8
    /\ fn_ret.bits = fn_call.pb.bits \o << 1, 0, 0, 0, 1 >>

(* v = 2^30 - 1, k = 0 after 8 bits: q = INT_MAX, the sum of the guard     *)
(* leaves int, and the call returns 0 with at most 56 bits appended.       *)
C29_GuardOverflows ==
    /\ GolombReturned /\ ~fn_ret.defined /\ fn_ret.ret = 0
    /\ fn_call.v = Pow2(30) - 1 /\ fn_call.k = 0
    /\ Len(fn_call.pb.bits) = 8
    /\ fn_ret.count = INT32_MAX
    /\ GolombAppended <= 56

(* v = INT_MAX, k = 0: rice_count returns -1 and the writer calls put_bits *)
(* with the length -1.                                                     *)
C29_NegativeCount ==
    /\ GolombReturned /\ ~fn_ret.defined /\ fn_ret.ret = 0
    /\ fn_call.v = INT32_MAX /\ fn_call.k = 0
    /\ fn_ret.count = -1

(***************************************************************************)
(* SpecParamBits: the bits write_block puts for the ec_sub field and the   *)
(* parameters s[], sx[] of a block that is not constant, next to the count *)
(* block_ec_param_count returns for the same parameters.  s and sx are the *)
(* sequences s[0], s[1], ... of the sub-blocks.                            *)
(***************************************************************************)
MaxParamBits == 4096

(* "PUT_BITS_SAFE(pb, bits, val, return -1;)" on a writer with its return  *)
(* value so far.                                                           *)
PutBitsSafe(w, n, value) ==
    IF w.ret # 0 THEN w
    ELSE IF Len(w.bits) + n > w.size_in_bits THEN [w EXCEPT !.ret = -1]
    ELSE [w EXCEPT !.bits = put_bits(w.bits, n, value)]

(* "if (set_sr_golomb_als(pb, ..., k)) return -1;"  The differences of the *)
(* parameters are below 512, where the call has one outcome.               *)
PutGolombSafe(w, v, k) ==
    IF w.ret # 0 THEN w
    ELSE Bind(CHOOSE o \in set_sr_golomb_als(w, v, k) : TRUE,
              LAMBDA o : [w EXCEPT !.ret = o.ret, !.bits = o.bits])

(* "for (sb = 1; sb < ent->sub_blocks; sb++)": S is S[0], S[1], ...        *)
RECURSIVE WriteParamDeltas(_, _, _, _)
WriteParamDeltas(w, S, sb, k) ==
    IF sb >= Len(S) THEN w
    ELSE WriteParamDeltas(PutGolombSafe(w, S[sb + 1] - S[sb], k), S, sb + 1, k)

(* The ec_sub field.                                                       *)
WriteEcSub(w, sc, sub_blocks) ==
    IF sc.sb_part # 0 /\ sc.bgmc # 0 THEN PutBitsSafe(w, 2, av_log2(sub_blocks))
    ELSE IF sc.sb_part # 0 \/ sc.bgmc # 0
    THEN PutBitsSafe(w, 1, IF sub_blocks > 1 THEN 1 ELSE 0)
    ELSE w

(* "s[k], sx[k]"                                                           *)
WriteEcParams(w, sc, sub_blocks, s, sx) ==
    LET wide == IF sc.bits_per_raw_sample > 16 THEN 1 ELSE 0
        S == [sb \in 1 .. sub_blocks |->
                 IF sc.bgmc # 0 THEN s[sb] * 16 + sx[sb] ELSE s[sb]]
    IN  IF sc.bgmc # 0
        THEN WriteParamDeltas(PutBitsSafe(w, 8 + wide, S[1]), S, 1, 2)
        ELSE WriteParamDeltas(PutBitsSafe(w, 4 + wide, S[1]), S, 1, 0)

(* The sub-block counts the searches can return: 1 without sb_part, 1 or 4 *)
(* from the Rice searches, 1, 2, 4 or 8 from the BGMC searches.            *)
SubBlockChoices(sc) ==
    IF sc.sb_part = 0 THEN {1} ELSE IF sc.bgmc # 0 THEN {1, 2, 4, 8} ELSE {1, 4}

ParamPatterns(sc) ==
    { [sb \in 1 .. 8 |-> 2],
      [sb \in 1 .. 8 |-> IF sb % 2 = 1 THEN 2 ELSE 5],
      [sb \in 1 .. 8 |-> sb - 1],
      [sb \in 1 .. 8 |-> IF sb = 1 THEN sc.max_rice_param ELSE 0] }

BgmcPatterns ==
    { [sb \in 1 .. 8 |-> 0], [sb \in 1 .. 8 |-> IF sb % 2 = 1 THEN 0 ELSE 15] }

InitParamBits ==
    /\ NoFrames /\ NoBlockSearch /\ NoMuxer
    /\ \E level \in 0 .. 2, fmt \in SampleFormats, ac \in BOOLEAN :
         \E sc \in { get_specific_config(level, fmt[1], fmt[2], -1, ac) } :
           \E sub_blocks \in SubBlockChoices(sc), s \in ParamPatterns(sc), sx \in BgmcPatterns :
             fn_call = [name |-> "block_ec_param_count", sconf |-> sc,
                        sub_blocks |-> sub_blocks,
                        s |-> SubSeq(s, 1, sub_blocks), sx |-> SubSeq(sx, 1, sub_blocks)]
    /\ fn_ret = << >>

CountAndWriteParams ==
    /\ fn_call.name = "block_ec_param_count"
    /\ fn_ret = << >>
    /\ \E w \in { WriteEcSub([bits |-> << >>, size_in_bits |-> MaxParamBits, ret |-> 0],
                             fn_call.sconf, fn_call.sub_blocks) } :
         fn_ret' = [count |-> block_ec_param_count(fn_call.sconf.sb_part,
                                  fn_call.sconf.max_rice_param, fn_call.sub_blocks,
                                  fn_call.s, fn_call.sx, fn_call.sconf.bgmc),
                    ec_sub_bits |-> Len(w.bits),
                    written |-> WriteEcParams(w, fn_call.sconf, fn_call.sub_blocks,
                                              fn_call.s, fn_call.sx)]
    /\ UNCHANGED << encvars, blockvars, muxvars, fn_call >>

NextParamBits == CountAndWriteParams

SpecParamBits == InitParamBits /\ [][NextParamBits]_vars

ParamsWritten ==
    fn_call.name = "block_ec_param_count" /\ fn_ret # << >> /\ fn_ret.written.ret = 0

(* C30: for every sb_part, bgmc, resolution and sub_blocks the count of    *)
(* block_ec_param_count is the number of bits write_block puts for the     *)
(* ec_sub field and the parameter fields s[], sx[].                        *)
C30_CountEqualsWrittenBits ==
    ParamsWritten => fn_ret.count = Len(fn_ret.written.bits)

(* The same where sb_part is on or BGMC is off, and bits_per_raw_sample    *)
(* is above 16 exactly when max_rice_param is 31.                          *)
C30_CountEqualsWrittenBitsOtherwise ==
    (/\ ParamsWritten
     /\ fn_call.sconf.sb_part # 0 \/ fn_call.sconf.bgmc = 0
     /\ (fn_call.sconf.bits_per_raw_sample > 16) = (fn_call.sconf.max_rice_param > 15))
        => fn_ret.count = Len(fn_ret.written.bits)

(* Level 0 with the arithmetic coder, 16-bit samples: bgmc without         *)
(* sb_part.  write_block puts 1 + 8 bits, the count is 8.                  *)
C30_EcSubBitNotCounted ==
    /\ ParamsWritten
    /\ fn_call.sconf.compression_level = 0
    /\ fn_call.sconf.bgmc = 1 /\ fn_call.sconf.sb_part = 0
    /\ fn_call.sconf.sample_fmt = "S16"
    /\ fn_ret.ec_sub_bits = 1
    /\ Len(fn_ret.written.bits) = 9
    /\ fn_ret.count = 8

(* S32 input with bits_per_raw_sample = 16, level 1: the count has 5 bits  *)
(* for s[0], write_block puts 4.                                           *)
C30_WideFieldCountedOnly ==
    /\ ParamsWritten
    /\ fn_call.sconf.compression_level = 1 /\ fn_call.sconf.bgmc = 0
    /\ fn_call.sconf.max_rice_param = 31 /\ fn_call.sconf.bits_per_raw_sample = 16
    /\ fn_call.sub_blocks = 1
    /\ Len(fn_ret.written.bits) = 1 + 4
    /\ fn_ret.count = 1 + 5

(* Level 2, 8 sub-blocks: the deltas written are the deltas counted.       *)
C30_EightSubBlocksAgree ==
    /\ ParamsWritten
    /\ fn_call.sub_blocks = 8
    /\ fn_call.s[2] = 5 /\ fn_call.sx[2] = 15
    /\ fn_ret.count = Len(fn_ret.written.bits)
    /\ fn_ret.count > 100

====
